---- MODULE Spec2Model ----
(***************************************************************************)
(* Cross-org records viewer (crossOrgRecordsViewer.js) and record modal    *)
(* (crossOrgRecordModal.js).                                               *)
(*                                                                         *)
(* JavaScript strings are sequences of one-character strings.  JavaScript  *)
(* values are records [t, s]: t is the type tag, s the characters of a     *)
(* string (or of the string held by a {value: X} wrapper object).          *)
(***************************************************************************)
EXTENDS Integers, Sequences, FiniteSets, TLC

VARIABLES
    \* ---- record modal: @api properties
    record, objectApiName, editFields, lookupLabels,
    \* ---- record modal: component fields
    recordData, saveLoading, errorMessage,
    externalLookupOptionsMap, externalLookupSearchTerm,
    externalLookupDisplayMap, externalLookupDropdownOpen,
    externalSearchTimeouts, initialRecordValues,
    \* ---- record modal: environment (browser timers, Apex calls in flight)
    modalState, timers, nextTimerId, searchesInFlight, searchesIssued,
    lastSearchCall, saveCalls, saveCallsIssued, lastSaveCall,
    \* ---- record modal: history (the keystrokes of a field's current run
    \* and the search calls issued in it, the latest search issued for the
    \* field, whether the user has edited anything)
    runKeystrokes, runCalls, latestSearch, touched,
    \* ---- viewer: @api property and component fields
    viewerObjectApiName,
    tableData, tableColumns, viewerErrorMessage, isLoading, hasSearched,
    currentPage, pageSize, sortedBy, sortedDirection, searchTerm,
    searchTimeout,
    \* ---- viewer: environment (connected or not, Apex calls in flight)
    viewerState, loadsInFlight, loadsIssued, lastLoadCall,
    deletesInFlight, deletesIssued,
    \* ---- viewer: getRecordForEdit / getCreateFields calls in flight
    fetchesInFlight, fetchesIssued,
    \* ---- environment of Date: minutes east of UTC of the browser
    tz,
    \* ---- history: the last answer received from a Data Access call or
    \*      from the confirm() prompt
    lastReply,
    \* ---- application of the pure functions to drawn inputs
    nvA, nvB, nvOutA, nvOutB, nvApplied,
    \* ---- getLookupObjectForField applied to a drawn field descriptor
    ltDef, ltOut, ltApplied,
    \* ---- isValidEmail and isValidPhone applied to a drawn value
    fvIn, fvEmail, fvPhone, fvApplied,
    \* ---- buildTableColumns and fieldsWithValues applied to drawn
    \*      configuration entries, and the number of times they were built
    cfgEntries, cfgColumns, cfgFields, cfgBuilds

modalProps == <<record, objectApiName, editFields, lookupLabels>>
modalFields == <<recordData, saveLoading, errorMessage,
                 externalLookupOptionsMap, externalLookupSearchTerm,
                 externalLookupDisplayMap, externalLookupDropdownOpen,
                 externalSearchTimeouts, initialRecordValues>>
searchEnv == <<searchesInFlight, searchesIssued, lastSearchCall>>
saveEnv == <<saveCalls, saveCallsIssued, lastSaveCall>>
modalEnv == <<modalState, timers, nextTimerId, searchEnv, saveEnv>>
modalHistory == <<runKeystrokes, runCalls, latestSearch, touched>>
timerEnv == <<timers, nextTimerId>>
modalVars == <<modalProps, modalFields, modalEnv, modalHistory>>
viewerFields == <<tableData, tableColumns, viewerErrorMessage, isLoading,
                  hasSearched, currentPage, pageSize, sortedBy,
                  sortedDirection, searchTerm, searchTimeout>>
loadEnv == <<loadsInFlight, loadsIssued, lastLoadCall>>
deleteEnv == <<deletesInFlight, deletesIssued>>
openEnv == <<fetchesInFlight, fetchesIssued>>
viewerVars == <<viewerObjectApiName, viewerFields, viewerState, loadEnv, deleteEnv, openEnv>>
\* everything but the browser's timer table, which both components use
modalOwnVars == <<modalProps, modalFields, modalState, searchEnv, saveEnv, modalHistory>>
normVars == <<nvA, nvB, nvOutA, nvOutB, nvApplied>>
targetVars == <<ltDef, ltOut, ltApplied>>
formatVars == <<fvIn, fvEmail, fvPhone, fvApplied>>
schemaVars == <<cfgEntries, cfgColumns, cfgFields, cfgBuilds>>
pureVars == <<normVars, targetVars, formatVars, schemaVars>>
envVars == <<tz, lastReply>>
nonModalVars == <<viewerVars, envVars, pureVars>>
vars == <<modalVars, viewerVars, envVars, pureVars>>

(***************************************************************************)
(* Bounds                                                                  *)
(***************************************************************************)
MaxTimers == 3
MaxSearches == 2
MaxSaves == 2
MaxLoads == 2
MaxDeletes == 1

(***************************************************************************)
(* Strings                                                                 *)
(***************************************************************************)
UpperLetters == <<"A","B","C","D","E","F","G","H","I","J","K","L","M",
                  "N","O","P","Q","R","S","T","U","V","W","X","Y","Z">>
LowerLetters == <<"a","b","c","d","e","f","g","h","i","j","k","l","m",
                  "n","o","p","q","r","s","t","u","v","w","x","y","z">>
DigitChars == <<"0","1","2","3","4","5","6","7","8","9">>

Range(seq) == {seq[i] : i \in DOMAIN seq}
IsLetter(c) == c \in Range(UpperLetters) \cup Range(LowerLetters)
IsDigit(c) == c \in Range(DigitChars)
IsSpace(c) == c = " "

\* String.prototype.toLowerCase
toLowerChar(c) ==
    IF \E i \in DOMAIN UpperLetters : UpperLetters[i] = c
    THEN LowerLetters[CHOOSE i \in DOMAIN UpperLetters : UpperLetters[i] = c]
    ELSE c
toLowerCase(s) == [i \in DOMAIN s |-> toLowerChar(s[i])]

\* String.prototype.trim
RECURSIVE trimStart(_)
trimStart(s) ==
    IF s # <<>> /\ IsSpace(Head(s)) THEN trimStart(Tail(s)) ELSE s
RECURSIVE trimEnd(_)
trimEnd(s) ==
    IF s # <<>> /\ IsSpace(s[Len(s)])
    THEN trimEnd(SubSeq(s, 1, Len(s) - 1)) ELSE s
trim(s) == trimEnd(trimStart(s))

\* String.prototype.endsWith / lastIndexOf (1-based, 0 when absent)
endsWith(s, suffix) ==
    /\ Len(s) >= Len(suffix)
    /\ SubSeq(s, Len(s) - Len(suffix) + 1, Len(s)) = suffix
lastIndexOf(s, c) ==
    IF \E i \in DOMAIN s : s[i] = c
    THEN CHOOSE i \in DOMAIN s : s[i] = c /\ \A j \in DOMAIN s : s[j] = c => j <= i
    ELSE 0

(***************************************************************************)
(* JavaScript values                                                       *)
(***************************************************************************)
Undefined == [t |-> "undefined", s |-> <<>>]
Null == [t |-> "null", s |-> <<>>]
Str(s) == [t |-> "string", s |-> s]
\* the object {value: s}
Wrapped(s) == [t |-> "object", s |-> s]
EmptyStr == Str(<<>>)

\* val == null
isNullish(v) == v.t \in {"undefined", "null"}
\* String(val)
ObjectObject == <<"[","o","b","j","e","c","t"," ","O","b","j","e","c","t","]">>
String(v) ==
    CASE v.t = "string" -> v.s
      [] v.t = "object" -> ObjectObject
      [] v.t = "null" -> <<"n","u","l","l">>
      [] OTHER -> <<"u","n","d","e","f","i","n","e","d">>
\* !val
isFalsy(v) == isNullish(v) \/ (v.t = "string" /\ v.s = <<>>)

(***************************************************************************)
(* Date: new Date(s), getTime, toISOString().slice(0, 10).  The parser     *)
(* knows the date forms below for the days of January 2024 with a one      *)
(* digit day; every other string is an Invalid Date.  Time is counted in   *)
(* minutes, day d of the month starting at minute d * MinutesPerDay (UTC). *)
(***************************************************************************)
MinutesPerDay == 1440
IsoDatePrefix == <<"2","0","2","4","-","0","1","-","0">>
UtcMidnightSuffix == <<"T","0","0",":","0","0",":","0","0",".","0","0","0","Z">>
LocalMidnightSuffix == <<"T","0","0",":","0","0",":","0","0">>
UsDatePrefix == <<"0","1","/","0">>
UsDateSuffix == <<"/","2","0","2","4">>
DayDigits == 1..9
DigitOf(n) == DigitChars[n + 1]
DayOf(c) == CHOOSE n \in 0..9 : DigitChars[n + 1] = c

\* "2024-01-0d": date-only ISO form, UTC
IsoDate(d) == IsoDatePrefix \o <<DigitOf(d)>>
\* "2024-01-0dT00:00:00.000Z": ISO timestamp, UTC
IsoUtcMidnight(d) == IsoDate(d) \o UtcMidnightSuffix
\* "2024-01-0dT00:00:00": ISO date-time without offset, local time
IsoLocalMidnight(d) == IsoDate(d) \o LocalMidnightSuffix
\* "01/0d/2024": non-ISO form, local time
UsDate(d) == UsDatePrefix \o <<DigitOf(d)>> \o UsDateSuffix

\* the forms of day d the parser knows
DateForms(d) == {IsoDate(d), IsoUtcMidnight(d), IsoLocalMidnight(d), UsDate(d)}
DateFormLengths == {10, 19, 24}
\* the calendar day a date string names, 0 when s is no date string
WrittenDay(s) ==
    IF Len(s) \in DateFormLengths /\ \E d \in DayDigits : s \in DateForms(d)
    THEN CHOOSE d \in DayDigits : s \in DateForms(d)
    ELSE 0
IsLocalForm(s) == \E d \in DayDigits : s \in {IsoLocalMidnight(d), UsDate(d)}

NaN == -1
\* new Date(s).getTime(), in minutes; NaN for an Invalid Date
DateGetTime(s) ==
    IF WrittenDay(s) = 0 THEN NaN
    ELSE WrittenDay(s) * MinutesPerDay - (IF IsLocalForm(s) THEN tz ELSE 0)
\* d.toISOString().slice(0, 10): the UTC day of the instant, which is in
\* December 2023 before minute MinutesPerDay and has two digits from day 10
LastOfDecember == <<"2","0","2","3","-","1","2","-","3","1">>
TenthOfJanuary == <<"2","0","2","4","-","0","1","-","1","0">>
toISODate(time) ==
    LET day == time \div MinutesPerDay
    IN IF day < 1 THEN LastOfDecember
       ELSE IF day > 9 THEN TenthOfJanuary
       ELSE IsoDate(day)

(***************************************************************************)
(* crossOrgRecordModal.js: module-level functions                          *)
(***************************************************************************)
\* /^[a-zA-Z0-9._%+-]+@[a-zA-Z0-9.-]+\.[a-zA-Z]{2,}$/
EmailLocalChar(c) == IsLetter(c) \/ IsDigit(c) \/ c \in {".", "_", "%", "+", "-"}
EmailDomainChar(c) == IsLetter(c) \/ IsDigit(c) \/ c \in {".", "-"}
EMAIL_REGEX_test(s) ==
    \E i \in DOMAIN s : \E j \in DOMAIN s :
        /\ s[i] = "@" /\ s[j] = "."
        /\ 1 < i /\ i + 1 < j /\ j + 2 <= Len(s)
        /\ \A k \in 1..(i - 1) : EmailLocalChar(s[k])
        /\ \A k \in (i + 1)..(j - 1) : EmailDomainChar(s[k])
        /\ \A k \in (j + 1)..Len(s) : IsLetter(s[k])

isValidEmail(v) ==
    IF isNullish(v) \/ trim(String(v)) = <<>> THEN TRUE
    ELSE EMAIL_REGEX_test(trim(String(v)))

\* String(s).replace(/\D/g, '')
digitsOnly(s) == SelectSeq(s, IsDigit)
isValidPhone_lengthOnly(v) ==
    IF isNullish(v) \/ trim(String(v)) = <<>> THEN TRUE
    ELSE Len(String(v)) >= 10
isValidPhone(v) ==
    IF isNullish(v) \/ trim(String(v)) = <<>> THEN TRUE
    ELSE Len(digitsOnly(String(v))) >= 10

normalizedValue(val) ==
    IF isNullish(val) THEN <<>>
    ELSE LET s == trim(IF val.t = "object" THEN val.s ELSE String(val))
         IN IF s = <<>> THEN <<>>
            ELSE IF DateGetTime(s) # NaN THEN toISODate(DateGetTime(s))
            ELSE s

\* a field descriptor; lookupObjectApiName is Null when the server sent none
FieldDef(fieldName, label, type, required, isExternalLookup, lookupObject) ==
    [fieldName |-> fieldName, label |-> label, type |-> type,
     required |-> required, isExternalLookup |-> isExternalLookup,
     lookupObjectApiName |-> lookupObject]

getLookupObjectForField_plainStem(fieldDef) ==
    LET name == trim(fieldDef.fieldName)
    IN IF ~isNullish(fieldDef.lookupObjectApiName)
          /\ trim(String(fieldDef.lookupObjectApiName)) # <<>>
       THEN trim(String(fieldDef.lookupObjectApiName))
       ELSE IF Len(name) > 2 /\ endsWith(toLowerCase(name), <<"i","d">>)
            THEN SubSeq(name, 1, Len(name) - 2)
            ELSE <<>>
getLookupObjectForField(fieldDef) ==
    LET fromServer == IF ~isNullish(fieldDef.lookupObjectApiName)
                      THEN trim(String(fieldDef.lookupObjectApiName))
                      ELSE <<>>
        name0 == trim(fieldDef.fieldName)
        name == IF lastIndexOf(name0, ".") # 0
                THEN trim(SubSeq(name0, lastIndexOf(name0, ".") + 1, Len(name0)))
                ELSE name0
        base == SubSeq(name, 1, Len(name) - 2)
    IN IF fromServer # <<>> THEN fromServer
       ELSE IF Len(name) > 2 /\ endsWith(toLowerCase(name), <<"i","d">>)
            THEN IF toLowerCase(base) = <<"o","w","n","e","r">>
                 THEN <<"U","s","e","r">>
                 ELSE base
            ELSE <<>>

(***************************************************************************)
(* Record modal: the sessions the model opens                              *)
(***************************************************************************)
FN_Id == <<"I","d">>
FN_Name == <<"N","a","m","e">>
FN_Email == <<"E","m","a","i","l">>
FN_OwnerId == <<"O","w","n","e","r","I","d">>
FN_Ref == <<"R","e","f">>
FieldUniverse == {FN_Id, FN_Name, FN_Email, FN_OwnerId, FN_Ref}

\* a JavaScript object with the given own properties; other keys read undefined
Obj(props) == [fn \in FieldUniverse |-> IF fn \in DOMAIN props THEN props[fn] ELSE Undefined]
EmptyObj == [fn \in FieldUniverse |-> Undefined]
\* {...base, [fn]: v}
Spread_wide(base, fn, v) == [k \in DOMAIN base |-> v]
Spread(base, fn, v) == [base EXCEPT ![fn] = v]

S_a == <<"a">>
S_b == <<"b">>
S_a_padded == <<" ","a">>
S_ab == <<"a","b">>
S_ab_padded == <<"a","b"," ">>
S_mail == <<"a","@","b",".","c","o">>
S_u1 == <<"u","1">>
S_u2 == <<"u","2">>
S_Ann == <<"A","n","n">>
S_Bob == <<"B","o","b">>
S_rec1 == <<"0","0","1">>
S_Account == <<"A","c","c","o","u","n","t">>
S_blank == <<" ">>

NameField == FieldDef(FN_Name, <<"N","a","m","e">>, "text", TRUE, FALSE, Null)
EmailField == FieldDef(FN_Email, <<>>, "Email", FALSE, FALSE, Null)
OwnerField == FieldDef(FN_OwnerId, <<"O","w","n","e","r">>, "text", TRUE, TRUE, Null)
RefField == FieldDef(FN_Ref, <<"R","e","f">>, "text", FALSE, TRUE, Null)

NoLabels == [fn \in FieldUniverse |-> <<>>]

\* a session: the arguments of CrossOrgRecordModal.open
Session(rec, obj, fields, labels) ==
    [record |-> rec, objectApiName |-> obj, editFields |-> fields, lookupLabels |-> labels]

EditRecord == Obj((FN_Id :> Str(S_rec1)) @@ (FN_Name :> Wrapped(S_a)) @@
                  (FN_Email :> Str(S_mail)) @@ (FN_OwnerId :> Str(S_u1)))
\* a record whose required Name is null
EditRecordNoName == Obj((FN_Id :> Str(S_rec1)) @@ (FN_Name :> Null) @@
                        (FN_OwnerId :> Str(S_u1)))
\* a record whose Id is blank, and one without Id
EditRecordBlankId == Obj((FN_Id :> Str(S_blank)) @@ (FN_Name :> Str(S_a)))
RecordWithoutId == Obj((FN_Name :> Str(S_a)))
OwnerLabels == [NoLabels EXCEPT ![FN_OwnerId] = S_Ann]

SaveSessions ==
    { Session(EditRecord, Str(S_Account), <<NameField, EmailField>>, NoLabels),
      Session(EditRecord, Str(S_Account), <<OwnerField>>, OwnerLabels),
      Session(EditRecordNoName, Str(S_Account), <<NameField>>, NoLabels),
      Session(EditRecordBlankId, Str(S_Account), <<NameField>>, NoLabels),
      Session(EditRecord, Str(S_blank), <<NameField>>, NoLabels),
      Session(RecordWithoutId, Str(S_Account), <<NameField>>, NoLabels),
      Session(EmptyObj, Str(S_Account), <<NameField, EmailField>>, NoLabels) }
LookupSessions ==
    { Session(EditRecord, Str(S_Account), <<OwnerField>>, OwnerLabels),
      Session(EmptyObj, Str(S_Account), <<OwnerField, RefField>>, NoLabels) }

\* what the user can type into a plain input, and into a lookup input
FieldInputs(f) ==
    IF f.fieldName = FN_Email THEN {<<>>, S_mail, S_ab}
    ELSE {<<>>, S_a_padded, S_b}
KeystrokeValues == {S_a, S_ab_padded}
\* what searchExternalRecords can resolve with: null or a list of {value, label}
Option(value, label) == [value |-> value, label |-> label]
SearchResult(isNull, list) == [isNull |-> isNull, list |-> list]
SearchResults == {SearchResult(TRUE, <<>>), SearchResult(FALSE, <<>>),
                  SearchResult(FALSE, <<Option(S_u2, S_Bob), Option(S_u1, <<>>)>>)}

(***************************************************************************)
(* Record modal: getters                                                   *)
(***************************************************************************)
FieldNames == {editFields[i].fieldName : i \in DOMAIN editFields}
FieldByName(fn) == editFields[CHOOSE i \in DOMAIN editFields : editFields[i].fieldName = fn]
isExternalLookup(f) == f.isExternalLookup = TRUE
LookupFieldNames == {editFields[i].fieldName : i \in {j \in DOMAIN editFields : isExternalLookup(editFields[j])}}
PlainFieldNames == FieldNames \ LookupFieldNames

isEditMode == ~isFalsy(record[FN_Id])

\* (f.type || 'text').toLowerCase()
rawType(f) ==
    CASE f.type = "" -> "text"
      [] f.type = "Email" -> "email"
      [] f.type = "Phone" -> "phone"
      [] OTHER -> f.type

\* fieldsWithValues: the value bound to the input of field f
fieldValue(f) ==
    LET val == recordData[f.fieldName]
    IN IF isNullish(val) THEN <<>>
       ELSE IF val.t = "object" THEN val.s
       ELSE String(val)

\* lightning-input / lightning-combobox reportValidity(): a required input
\* that shows no value is invalid
reportValidity(f) == ~(f.required /\ ~isExternalLookup(f) /\ fieldValue(f) = <<>>)

(***************************************************************************)
(* Record modal: construction and connectedCallback                        *)
(***************************************************************************)
\* no call issued so far
NoCall == [kind |-> "none"]
\* an answer of a Data Access call: "success", "failure" (success=false) or
\* "rejected"; records are the rows of a successful getRecords
Reply(call, outcome, records) == [call |-> call, outcome |-> outcome, records |-> records]
NoReply == Reply("none", "none", <<>>)
NoError == [text |-> "", label |-> <<>>]
Error(text) == [text |-> text, label |-> <<>>]
ErrorFor(text, label) == [text |-> text, label |-> label]

ModalInit(sessions) ==
    /\ \E sess \in sessions :
        /\ record = sess.record
        /\ objectApiName = sess.objectApiName
        /\ editFields = sess.editFields
        /\ lookupLabels = sess.lookupLabels
    /\ recordData = EmptyObj
    /\ saveLoading = FALSE
    /\ errorMessage = NoError
    /\ externalLookupOptionsMap = [fn \in FieldUniverse |-> <<>>]
    /\ externalLookupSearchTerm = [fn \in FieldUniverse |-> <<>>]
    /\ externalLookupDisplayMap = [fn \in FieldUniverse |-> <<>>]
    /\ externalLookupDropdownOpen = [fn \in FieldUniverse |-> FALSE]
    /\ externalSearchTimeouts = [fn \in FieldUniverse |-> 0]
    /\ initialRecordValues = EmptyObj
    /\ modalState = "created"
    /\ timers = {}
    /\ nextTimerId = 1
    /\ searchesInFlight = {}
    /\ searchesIssued = 0
    /\ lastSearchCall = NoCall
    /\ saveCalls = {}
    /\ saveCallsIssued = 0
    /\ lastSaveCall = NoCall
    /\ runKeystrokes = [fn \in FieldUniverse |-> <<>>]
    /\ runCalls = [fn \in FieldUniverse |-> <<>>]
    /\ latestSearch = [fn \in FieldUniverse |-> 0]
    /\ touched = FALSE

\* the snapshot taken at lines 78-80
snapshot_none(rec) == EmptyObj
snapshot(rec) == rec

connectedCallback ==
    /\ modalState = "created"
    /\ recordData' = record
    /\ externalLookupDisplayMap' =
         IF \E fn \in FieldUniverse : lookupLabels[fn] # <<>>
         THEN [fn \in FieldUniverse |->
                 IF lookupLabels[fn] # <<>> THEN lookupLabels[fn]
                 ELSE externalLookupDisplayMap[fn]]
         ELSE externalLookupDisplayMap
    /\ initialRecordValues' = snapshot(record)
    /\ modalState' = "open"
    /\ UNCHANGED <<modalProps, saveLoading, errorMessage, externalLookupOptionsMap,
                   externalLookupSearchTerm, externalLookupDropdownOpen,
                   externalSearchTimeouts, timers, nextTimerId, searchEnv,
                   saveEnv, modalHistory>>
    /\ UNCHANGED nonModalVars

(***************************************************************************)
(* Record modal: field and lookup handlers                                 *)
(***************************************************************************)
handleFieldChange_rebased(fieldName, value) ==
    /\ modalState = "open"
    /\ recordData' = Spread(recordData, fieldName, Str(value))
    /\ initialRecordValues' = Spread(initialRecordValues, fieldName, Str(value))
    /\ touched' = TRUE
    /\ UNCHANGED <<modalProps, saveLoading, errorMessage, externalLookupOptionsMap,
                   externalLookupSearchTerm, externalLookupDisplayMap,
                   externalLookupDropdownOpen, externalSearchTimeouts,
                   modalEnv, runKeystrokes, runCalls, latestSearch>>
    /\ UNCHANGED nonModalVars
handleFieldChange(fieldName, value) ==
    /\ modalState = "open"
    /\ recordData' = Spread(recordData, fieldName, Str(value))
    /\ touched' = TRUE
    /\ UNCHANGED <<modalProps, saveLoading, errorMessage, externalLookupOptionsMap,
                   externalLookupSearchTerm, externalLookupDisplayMap,
                   externalLookupDropdownOpen, externalSearchTimeouts,
                   initialRecordValues, modalEnv, runKeystrokes, runCalls,
                   latestSearch>>
    /\ UNCHANGED nonModalVars

EXTERNAL_LOOKUP_SEARCH_DEBOUNCE_MS == 350
BLUR_CLOSE_MS == 200
Timer(id, kind, fieldName, term) ==
    [id |-> id, kind |-> kind, fieldName |-> fieldName, searchTerm |-> term]
\* the viewer's search debounce (crossOrgRecordsViewer.js)
SEARCH_DEBOUNCE_MS == 400
Delay(timer) ==
    CASE timer.kind = "search" -> EXTERNAL_LOOKUP_SEARCH_DEBOUNCE_MS
      [] timer.kind = "load" -> SEARCH_DEBOUNCE_MS
      [] OTHER -> BLUR_CLOSE_MS
\* the pending debounce timers of a field
PendingSearchTimers(fieldName) ==
    {tm \in timers : tm.kind = "search" /\ tm.fieldName = fieldName}

\* clearTimeout(id): a fired or unknown id is ignored
clearTimeout_noop(table, id) == table
clearTimeout(table, id) == {tm \in table : tm.id # id}

handleExternalLookupInput(fieldName, value) ==
    /\ modalState = "open"
    /\ nextTimerId <= MaxTimers
    /\ externalLookupSearchTerm' = Spread(externalLookupSearchTerm, fieldName, value)
    /\ recordData' = Spread(recordData, fieldName, EmptyStr)
    /\ externalLookupDisplayMap' = Spread(externalLookupDisplayMap, fieldName, <<>>)
    /\ externalLookupDropdownOpen' = Spread(externalLookupDropdownOpen, fieldName, TRUE)
    /\ LET cleared == IF externalSearchTimeouts[fieldName] # 0
                      THEN clearTimeout(timers, externalSearchTimeouts[fieldName])
                      ELSE timers
       IN timers' = cleared \cup {Timer(nextTimerId, "search", fieldName, trim(value))}
    /\ externalSearchTimeouts' = Spread(externalSearchTimeouts, fieldName, nextTimerId)
    /\ nextTimerId' = nextTimerId + 1
    /\ runKeystrokes' =
         Spread(runKeystrokes, fieldName,
                IF PendingSearchTimers(fieldName) = {} THEN <<value>>
                ELSE Append(runKeystrokes[fieldName], value))
    /\ runCalls' = IF PendingSearchTimers(fieldName) = {}
                   THEN Spread(runCalls, fieldName, <<>>)
                   ELSE runCalls
    /\ touched' = TRUE
    /\ UNCHANGED <<modalProps, saveLoading, errorMessage, externalLookupOptionsMap,
                   initialRecordValues, modalState, searchEnv, saveEnv, latestSearch>>
    /\ UNCHANGED nonModalVars

\* timers of equal or shorter delay set earlier run first
CanFire(timer) ==
    /\ timer \in timers
    /\ \A other \in timers : other.id < timer.id => Delay(other) > Delay(timer)

EXTERNAL_LOOKUP_MAX_RESULTS == 50
SearchCall(obj, term) ==
    [kind |-> "searchExternalRecords", objectApiName |-> obj, searchTerm |-> term,
     maxResults |-> EXTERNAL_LOOKUP_MAX_RESULTS]
\* a searchExternalRecords promise and the fieldName its callbacks close over
PendingSearch(id, fieldName) == [id |-> id, fieldName |-> fieldName]

\* the callback of setTimeout at lines 152-166
SearchTimerFire(timer) ==
    /\ timer.kind = "search"
    /\ CanFire(timer)
    /\ timers' = timers \ {timer}
    /\ LET obj == getLookupObjectForField(FieldByName(timer.fieldName))
       IN IF obj = <<>>
          THEN /\ externalLookupOptionsMap' =
                    Spread(externalLookupOptionsMap, timer.fieldName, <<>>)
               /\ UNCHANGED <<searchEnv, runCalls, latestSearch>>
          ELSE /\ searchesIssued < MaxSearches
               /\ searchesIssued' = searchesIssued + 1
               /\ lastSearchCall' = SearchCall(obj, timer.searchTerm)
               /\ searchesInFlight' =
                    searchesInFlight \cup {PendingSearch(searchesIssued + 1, timer.fieldName)}
               /\ runCalls' = Spread(runCalls, timer.fieldName,
                                     Append(runCalls[timer.fieldName], timer.searchTerm))
               /\ latestSearch' = Spread(latestSearch, timer.fieldName, searchesIssued + 1)
               /\ UNCHANGED externalLookupOptionsMap
    /\ UNCHANGED <<modalProps, recordData, saveLoading, errorMessage,
                   externalLookupSearchTerm, externalLookupDisplayMap,
                   externalLookupDropdownOpen, externalSearchTimeouts,
                   initialRecordValues, modalState, nextTimerId, saveEnv,
                   runKeystrokes, touched>>
    /\ UNCHANGED nonModalVars

\* .then((options) => ...) at lines 162-164
SearchResolve(call, result) ==
    /\ call \in searchesInFlight
    /\ searchesInFlight' = searchesInFlight \ {call}
    /\ externalLookupOptionsMap' =
         Spread(externalLookupOptionsMap, call.fieldName,
                IF result.isNull THEN <<>> ELSE result.list)
    /\ UNCHANGED <<modalProps, recordData, saveLoading, errorMessage,
                   externalLookupSearchTerm, externalLookupDisplayMap,
                   externalLookupDropdownOpen, externalSearchTimeouts,
                   initialRecordValues, modalState, timers, nextTimerId,
                   searchesIssued, lastSearchCall, saveEnv, modalHistory>>
    /\ UNCHANGED <<viewerVars, tz, pureVars>>
    /\ lastReply' = Reply("searchExternalRecords", "success", <<>>)

\* .catch(() => {}) at line 165
SearchReject(call) ==
    /\ call \in searchesInFlight
    /\ searchesInFlight' = searchesInFlight \ {call}
    /\ UNCHANGED <<modalProps, modalFields, modalState, timers, nextTimerId,
                   searchesIssued, lastSearchCall, saveEnv, modalHistory>>
    /\ UNCHANGED <<viewerVars, tz, pureVars>>
    /\ lastReply' = Reply("searchExternalRecords", "rejected", <<>>)

handleExternalLookupSelect_labelOnly(fieldName, option) ==
    /\ modalState = "open"
    /\ recordData' = Spread(recordData, fieldName, Str(option.value))
    /\ externalLookupDisplayMap' = Spread(externalLookupDisplayMap, fieldName, option.label)
    /\ externalLookupDropdownOpen' = Spread(externalLookupDropdownOpen, fieldName, FALSE)
    /\ touched' = TRUE
    /\ UNCHANGED <<modalProps, saveLoading, errorMessage, externalLookupSearchTerm,
                   externalLookupOptionsMap, externalSearchTimeouts,
                   initialRecordValues, modalEnv, runKeystrokes, runCalls,
                   latestSearch>>
    /\ UNCHANGED nonModalVars
handleExternalLookupSelect(fieldName, option) ==
    /\ modalState = "open"
    /\ LET value == option.value
           label == IF option.label # <<>> THEN option.label ELSE value
       IN /\ recordData' = Spread(recordData, fieldName, Str(value))
          /\ externalLookupDisplayMap' = Spread(externalLookupDisplayMap, fieldName, label)
    /\ externalLookupSearchTerm' = Spread(externalLookupSearchTerm, fieldName, <<>>)
    /\ externalLookupDropdownOpen' = Spread(externalLookupDropdownOpen, fieldName, FALSE)
    /\ externalLookupOptionsMap' = Spread(externalLookupOptionsMap, fieldName, <<>>)
    /\ touched' = TRUE
    /\ UNCHANGED <<modalProps, saveLoading, errorMessage, externalSearchTimeouts,
                   initialRecordValues, modalEnv, runKeystrokes, runCalls,
                   latestSearch>>
    /\ UNCHANGED nonModalVars

handleExternalLookupBlur_immediate(fieldName) ==
    /\ modalState = "open"
    /\ nextTimerId <= MaxTimers
    /\ externalLookupDropdownOpen' = Spread(externalLookupDropdownOpen, fieldName, FALSE)
    /\ UNCHANGED <<modalProps, recordData, saveLoading, errorMessage,
                   externalLookupOptionsMap, externalLookupSearchTerm,
                   externalLookupDisplayMap, externalSearchTimeouts,
                   initialRecordValues, modalEnv, modalHistory>>
    /\ UNCHANGED nonModalVars
handleExternalLookupBlur(fieldName) ==
    /\ modalState = "open"
    /\ nextTimerId <= MaxTimers
    /\ timers' = timers \cup {Timer(nextTimerId, "blur", fieldName, <<>>)}
    /\ nextTimerId' = nextTimerId + 1
    /\ UNCHANGED <<modalProps, modalFields, modalState, searchEnv, saveEnv,
                   modalHistory>>
    /\ UNCHANGED nonModalVars

\* the callback of setTimeout at lines 188-190
BlurTimerFire(timer) ==
    /\ timer.kind = "blur"
    /\ CanFire(timer)
    /\ timers' = timers \ {timer}
    /\ externalLookupDropdownOpen' = Spread(externalLookupDropdownOpen, timer.fieldName, FALSE)
    /\ UNCHANGED <<modalProps, recordData, saveLoading, errorMessage,
                   externalLookupOptionsMap, externalLookupSearchTerm,
                   externalLookupDisplayMap, externalSearchTimeouts,
                   initialRecordValues, modalState, nextTimerId, searchEnv,
                   saveEnv, modalHistory>>
    /\ UNCHANGED nonModalVars

handleExternalLookupClear(fieldName) ==
    /\ modalState = "open"
    /\ recordData' = Spread(recordData, fieldName, EmptyStr)
    /\ externalLookupDisplayMap' = Spread(externalLookupDisplayMap, fieldName, <<>>)
    /\ externalLookupSearchTerm' = Spread(externalLookupSearchTerm, fieldName, <<>>)
    /\ externalLookupDropdownOpen' = Spread(externalLookupDropdownOpen, fieldName, FALSE)
    /\ externalLookupOptionsMap' = Spread(externalLookupOptionsMap, fieldName, <<>>)
    /\ touched' = TRUE
    /\ UNCHANGED <<modalProps, saveLoading, errorMessage, externalSearchTimeouts,
                   initialRecordValues, modalEnv, runKeystrokes, runCalls,
                   latestSearch>>
    /\ UNCHANGED nonModalVars

handleCancel ==
    /\ modalState = "open"
    /\ modalState' = "closed"
    /\ UNCHANGED <<modalProps, modalFields, timers, nextTimerId, searchEnv,
                   saveEnv, modalHistory>>
    /\ UNCHANGED nonModalVars

(***************************************************************************)
(* Record modal: handleSave                                                *)
(***************************************************************************)
\* lines 236-248: a required external lookup without a working value
externalRequiredValid_unchecked == TRUE
externalRequiredValid ==
    \A i \in DOMAIN editFields :
        (isExternalLookup(editFields[i]) /\ editFields[i].required)
            => ~isFalsy(recordData[editFields[i].fieldName])

\* lines 227-235: reportValidity of every rendered input and combobox
inputsValid == \A i \in DOMAIN editFields : reportValidity(editFields[i])

\* lines 250-269: the fields whose non-blank value fails its format
formatFailure(f) ==
    LET val == recordData[f.fieldName]
    IN IF isNullish(val) \/ trim(String(val)) = <<>> THEN ""
       ELSE IF rawType(f) = "email" /\ ~isValidEmail(Str(trim(String(val))))
            THEN "Invalid email format for "
       ELSE IF rawType(f) = "phone" /\ ~isValidPhone(Str(trim(String(val))))
            THEN "Invalid phone format for "
       ELSE ""
formatFailures == {i \in DOMAIN editFields : formatFailure(editFields[i]) # ""}
firstFormatFailure == CHOOSE i \in formatFailures : \A j \in formatFailures : i <= j
formatError ==
    LET f == editFields[firstFormatFailure]
    IN ErrorFor(formatFailure(f), IF f.label # <<>> THEN f.label ELSE f.fieldName)

allValid == inputsValid /\ externalRequiredValid /\ formatFailures = {}

\* lines 276-290: the payload built from the working values
changedFields_raw ==
    {fn \in FieldNames : recordData[fn] # initialRecordValues[fn]}
changedFields ==
    {fn \in FieldNames :
        normalizedValue(recordData[fn]) # normalizedValue(initialRecordValues[fn])}
filledFields_diffed ==
    {fn \in FieldNames :
        /\ ~isNullish(recordData[fn]) /\ recordData[fn] # EmptyStr
        /\ recordData[fn] # initialRecordValues[fn]}
filledFields ==
    {fn \in FieldNames : ~isNullish(recordData[fn]) /\ recordData[fn] # EmptyStr}
payloadValue(val) == IF ~isNullish(val) THEN val ELSE EmptyStr
buildPayload ==
    IF isEditMode
    THEN [fn \in changedFields |-> payloadValue(recordData[fn])]
    ELSE [fn \in filledFields |-> recordData[fn]]

SaveCall(kind, objectType, recordId, payload) ==
    [kind |-> kind, objectType |-> objectType, recordId |-> recordId,
     recordDataJson |-> payload]
\* an updateRecord / createRecord promise and the fail message its callbacks carry
PendingSave(id, failMessage) == [id |-> id, failMessage |-> failMessage]

\* line 209 and line 214
objectTypeMissing == isFalsy(objectApiName) \/ trim(String(objectApiName)) = <<>>
recordIdMissing ==
    isEditMode /\ (isFalsy(record[FN_Id]) \/ trim(String(record[FN_Id])) = <<>>)
\* line 292
noFieldsChanged_never == FALSE
noFieldsChanged == isEditMode /\ DOMAIN buildPayload = {}

handleSave ==
    /\ modalState = "open"
    /\ IF objectTypeMissing
       THEN /\ errorMessage' = Error("Object type is required.")
            /\ UNCHANGED <<saveLoading, saveEnv>>
       ELSE IF recordIdMissing
       THEN /\ errorMessage' = Error("Record Id is required to update.")
            /\ UNCHANGED <<saveLoading, saveEnv>>
       ELSE IF ~allValid
       THEN /\ errorMessage' = IF formatFailures # {} THEN formatError
                               ELSE Error("Please fix validation errors before saving.")
            /\ UNCHANGED <<saveLoading, saveEnv>>
       ELSE IF noFieldsChanged
       THEN /\ errorMessage' = Error("No fields were changed.")
            /\ UNCHANGED <<saveLoading, saveEnv>>
       ELSE /\ saveCallsIssued < MaxSaves
            /\ saveLoading' = TRUE
            /\ errorMessage' = NoError
            /\ saveCallsIssued' = saveCallsIssued + 1
            /\ lastSaveCall' =
                 IF isEditMode
                 THEN SaveCall("updateRecord", objectApiName, record[FN_Id], buildPayload)
                 ELSE SaveCall("createRecord", objectApiName, Undefined, buildPayload)
            /\ saveCalls' = saveCalls \cup
                 {PendingSave(saveCallsIssued + 1,
                              IF isEditMode THEN "Failed to save." ELSE "Failed to create.")}
    /\ UNCHANGED <<modalProps, recordData, externalLookupOptionsMap,
                   externalLookupSearchTerm, externalLookupDisplayMap,
                   externalLookupDropdownOpen, externalSearchTimeouts,
                   initialRecordValues, modalState, timers, nextTimerId,
                   searchEnv, modalHistory>>
    /\ UNCHANGED nonModalVars

\* what updateRecord / createRecord can resolve with
SaveResponses == {[success |-> TRUE, errorMessage |-> ""],
                  [success |-> FALSE, errorMessage |-> "Remote error"]}
\* the rejection reasons: error.body.message, error.message, or neither
SaveRejections == {""}

\* handleSaveResponse, called from .then at lines 306 and 316
handleSaveResponse(call, response) ==
    /\ call \in saveCalls
    /\ saveCalls' = saveCalls \ {call}
    /\ saveLoading' = FALSE
    /\ IF response.success
       THEN /\ modalState' = IF modalState = "open" THEN "saved" ELSE modalState
            /\ UNCHANGED errorMessage
       ELSE /\ errorMessage' = Error(IF response.errorMessage # "" THEN response.errorMessage
                                     ELSE call.failMessage)
            /\ UNCHANGED modalState
    /\ UNCHANGED <<modalProps, recordData, externalLookupOptionsMap,
                   externalLookupSearchTerm, externalLookupDisplayMap,
                   externalLookupDropdownOpen, externalSearchTimeouts,
                   initialRecordValues, timers, nextTimerId, searchEnv,
                   saveCallsIssued, lastSaveCall, modalHistory>>
    /\ UNCHANGED <<viewerVars, tz, pureVars>>
    /\ lastReply' = Reply("save", IF response.success THEN "success" ELSE "failure", <<>>)

\* .catch at lines 307-310 and 317-320
SaveReject_stillLoading(call, message) ==
    /\ call \in saveCalls
    /\ saveCalls' = saveCalls \ {call}
    /\ errorMessage' = Error(IF message # "" THEN message ELSE call.failMessage)
    /\ lastReply' = Reply("save", "rejected", <<>>)
    /\ UNCHANGED <<modalProps, recordData, saveLoading, externalLookupOptionsMap,
                   externalLookupSearchTerm, externalLookupDisplayMap,
                   externalLookupDropdownOpen, externalSearchTimeouts,
                   initialRecordValues, modalState, timers, nextTimerId,
                   searchEnv, saveCallsIssued, lastSaveCall, modalHistory,
                   viewerVars, tz, pureVars>>
SaveReject(call, message) ==
    /\ call \in saveCalls
    /\ saveCalls' = saveCalls \ {call}
    /\ saveLoading' = FALSE
    /\ errorMessage' = Error(IF message # "" THEN message ELSE call.failMessage)
    /\ UNCHANGED <<modalProps, recordData, externalLookupOptionsMap,
                   externalLookupSearchTerm, externalLookupDisplayMap,
                   externalLookupDropdownOpen, externalSearchTimeouts,
                   initialRecordValues, modalState, timers, nextTimerId,
                   searchEnv, saveCallsIssued, lastSaveCall, modalHistory>>
    /\ UNCHANGED <<viewerVars, tz, pureVars>>
    /\ lastReply' = Reply("save", "rejected", <<>>)

(***************************************************************************)
(* Record modal: specifications                                            *)
(***************************************************************************)
\* the viewer as constructed (lines 22-37), not yet connected
ViewerInit(objectTypes) ==
    /\ viewerObjectApiName \in objectTypes
    /\ tableData = <<>> /\ tableColumns = <<>> /\ viewerErrorMessage = ""
    /\ isLoading = FALSE /\ hasSearched = FALSE /\ currentPage = 1
    /\ pageSize = 25 /\ sortedBy = <<>> /\ sortedDirection = "asc"
    /\ searchTerm = <<>> /\ searchTimeout = 0
    /\ viewerState = "created"
    /\ loadsInFlight = {} /\ loadsIssued = 0 /\ lastLoadCall = NoCall
    /\ deletesInFlight = {} /\ deletesIssued = 0
    /\ fetchesInFlight = {} /\ fetchesIssued = 0
ViewerIdle == ViewerInit({Str(S_Account)})
NormIdle ==
    /\ nvA = Undefined /\ nvB = Undefined /\ nvOutA = <<>> /\ nvOutB = <<>>
    /\ nvApplied = FALSE
TargetIdle == ltDef = NameField /\ ltOut = <<>> /\ ltApplied = FALSE
FormatIdle == fvIn = Undefined /\ fvEmail = TRUE /\ fvPhone = TRUE /\ fvApplied = FALSE
SchemaIdle == cfgEntries = <<>> /\ cfgColumns = <<>> /\ cfgFields = <<>> /\ cfgBuilds = 0
PureIdle == lastReply = NoReply /\ NormIdle /\ TargetIdle /\ FormatIdle /\ SchemaIdle

LookupNext ==
    \/ \E fn \in LookupFieldNames : \E v \in KeystrokeValues :
           handleExternalLookupInput(fn, v)
    \/ \E tm \in timers : SearchTimerFire(tm)
    \/ \E call \in searchesInFlight : \E result \in SearchResults :
           SearchResolve(call, result)
    \/ \E call \in searchesInFlight : SearchReject(call)
    \/ \E fn \in LookupFieldNames :
           \E i \in DOMAIN externalLookupOptionsMap[fn] :
               handleExternalLookupSelect(fn, externalLookupOptionsMap[fn][i])
    \/ \E fn \in LookupFieldNames : handleExternalLookupClear(fn)

BlurNext ==
    \/ \E fn \in LookupFieldNames : handleExternalLookupBlur(fn)
    \/ \E tm \in timers : BlurTimerFire(tm)

SaveNext ==
    \/ \E fn \in PlainFieldNames : \E v \in FieldInputs(FieldByName(fn)) :
           handleFieldChange(fn, v)
    \/ handleCancel
    \/ handleSave
    \/ \E call \in saveCalls : \E response \in SaveResponses :
           handleSaveResponse(call, response)
    \/ \E call \in saveCalls : \E message \in SaveRejections : SaveReject(call, message)

\* a modal session from its opening to its close: fields, lookups and save
Init == ModalInit(SaveSessions) /\ ViewerIdle /\ PureIdle /\ tz = 0
Next == connectedCallback \/ LookupNext \/ SaveNext
Spec == Init /\ [][Next]_vars

\* the lookup fields of a session, with the blur timers
InitLookup == ModalInit(LookupSessions) /\ ViewerIdle /\ PureIdle /\ tz = 0
NextLookup == connectedCallback \/ LookupNext \/ BlurNext
SpecLookup == InitLookup /\ [][NextLookup]_vars

(***************************************************************************)
(* crossOrgRecordsViewer.js: data the server can return                    *)
(***************************************************************************)
LIMIT_OPTIONS == << <<"1","0">>, <<"2","5">>, <<"5","0">>, <<"1","0","0">>, <<"2","0","0">> >>
FETCH_LIMIT == 200

\* the Name of the n-th row the server returns: mixed case, empty and null
RowNames == <<Str(S_b), Str(<<"A">>), EmptyStr, Str(S_a), Null, Str(<<"B">>)>>
RowId(n) == <<"r", DigitOf(n \div 100), DigitOf((n \div 10) % 10), DigitOf(n % 10)>>
Row(n) == Obj((FN_Id :> Str(RowId(n))) @@ (FN_Name :> RowNames[(n % Len(RowNames)) + 1]))
Rows(count) == [n \in 1..count |-> Row(n)]
\* row sets of one page and of two pages at the smallest page size
SmallRowCount == 2
LargeRowCount == 11
RowSets == {Rows(SmallRowCount), Rows(LargeRowCount)}

RawColumn(label, fieldName, type, isLink, sortable) ==
    [label |-> label, fieldName |-> fieldName, type |-> type, isLink |-> isLink,
     sortable |-> sortable]
RawColumns == <<RawColumn(<<"N","a","m","e">>, FN_Name, "", TRUE, TRUE),
                RawColumn(<<"I","d">>, FN_Id, "Text", FALSE, FALSE)>>

\* what getRecords can resolve with; records and columns may be null
LoadResponse(success, recordsNull, records, columnsNull, columns, message) ==
    [success |-> success, recordsNull |-> recordsNull, records |-> records,
     columnsNull |-> columnsNull, columns |-> columns, errorMessage |-> message]
LoadResponses ==
    {LoadResponse(TRUE, FALSE, rows, FALSE, RawColumns, "") : rows \in RowSets}
    \cup {LoadResponse(TRUE, TRUE, <<>>, TRUE, <<>>, ""),
          LoadResponse(FALSE, TRUE, <<>>, TRUE, <<>>, "Query failed")}
\* the rejection reasons: error.body.message, error.message, or neither
LoadRejections == {"Network error"}
DeleteResponses == {[success |-> TRUE, errorMessage |-> ""],
                    [success |-> FALSE, errorMessage |-> ""]}
DeleteRejections == {""}
SearchTerms == {<<>>, <<"x">>}
\* values of the page size combobox: two of its options and an empty value
PageSizeInputs == {LIMIT_OPTIONS[1], LIMIT_OPTIONS[2], <<>>}
\* the rows of the page whose delete action is clicked
MaxRowChoice == 1

(***************************************************************************)
(* crossOrgRecordsViewer.js: getters and helpers                           *)
(***************************************************************************)
totalRecords == Len(tableData)

\* Math.ceil(a / b) for a >= 0, b > 0
ceilDiv_floor(a, b) == a \div b
ceilDiv(a, b) == (a + b - 1) \div b

totalPages ==
    IF totalRecords = 0 \/ pageSize <= 0 THEN 1
    ELSE ceilDiv(totalRecords, pageSize)

canGoPrev == currentPage > 1
canGoNext == currentPage < totalPages

\* the rows of the current page (slice(start, start + pageSize))
displayTableData ==
    LET start == (currentPage - 1) * pageSize
    IN SubSeq(tableData, start + 1,
              IF start + pageSize < Len(tableData) THEN start + pageSize ELSE Len(tableData))

\* parseInt(s, 10): the value of the leading digits, NaN when there are none
RECURSIVE leadingDigits(_)
leadingDigits(s) ==
    IF s # <<>> /\ IsDigit(Head(s)) THEN <<Head(s)>> \o leadingDigits(Tail(s)) ELSE <<>>
RECURSIVE digitsValue(_)
digitsValue(ds) ==
    IF ds = <<>> THEN 0
    ELSE 10 * digitsValue(SubSeq(ds, 1, Len(ds) - 1)) + DayOf(ds[Len(ds)])
parseInt(s) ==
    IF leadingDigits(trimStart(s)) = <<>> THEN NaN
    ELSE digitsValue(leadingDigits(trimStart(s)))

\* the order of the UTF-16 code units of the characters in use
CharOrder == <<" ", "%", "+", "-", ".", "/">> \o DigitChars \o <<":", "@">>
             \o UpperLetters \o <<"[", "]", "_">> \o LowerLetters
charCodes == [c \in Range(CharOrder) |-> CHOOSE k \in DOMAIN CharOrder : CharOrder[k] = c]
charCode(c) == charCodes[c]
\* a < b on strings
RECURSIVE stringLess(_, _)
stringLess(a, b) ==
    IF b = <<>> THEN FALSE
    ELSE IF a = <<>> THEN TRUE
    ELSE IF Head(a) = Head(b) THEN stringLess(Tail(a), Tail(b))
    ELSE charCode(Head(a)) < charCode(Head(b))

\* the comparator of handleSort, lines 209-222
sortKey(v) == IF v.t = "string" THEN toLowerCase(v.s) ELSE String(v)
compareRows(a, b, fieldName, isAsc) ==
    LET aVal == a[fieldName]
        bVal == b[fieldName]
        aNull == isNullish(aVal) \/ aVal = EmptyStr
        bNull == isNullish(bVal) \/ bVal = EmptyStr
    IN IF aNull /\ bNull THEN 0
       ELSE IF aNull THEN (IF isAsc THEN 1 ELSE -1)
       ELSE IF bNull THEN (IF isAsc THEN -1 ELSE 1)
       ELSE IF stringLess(sortKey(aVal), sortKey(bVal)) THEN (IF isAsc THEN -1 ELSE 1)
       ELSE IF stringLess(sortKey(bVal), sortKey(aVal)) THEN (IF isAsc THEN 1 ELSE -1)
       ELSE 0

\* Array.prototype.sort: a stable sort; x goes after the last element that
\* does not compare greater than it
insertRow(sorted, x, fieldName, isAsc) ==
    LET after == {k \in DOMAIN sorted : compareRows(sorted[k], x, fieldName, isAsc) <= 0}
        pos == IF after = {} THEN 0 ELSE CHOOSE k \in after : \A j \in after : j <= k
    IN SubSeq(sorted, 1, pos) \o <<x>> \o SubSeq(sorted, pos + 1, Len(sorted))
RECURSIVE sortRows(_, _, _)
sortRows(rows, fieldName, isAsc) ==
    IF rows = <<>> THEN <<>>
    ELSE insertRow(sortRows(SubSeq(rows, 1, Len(rows) - 1), fieldName, isAsc),
                   rows[Len(rows)], fieldName, isAsc)

\* buildTableColumns, lines 228-276
ActionColumn == [kind |-> "action", label |-> <<>>, fieldName |-> <<>>, type |-> "action",
                 sortable |-> FALSE]
columnType(col) ==
    CASE col.type = "" -> "text"
      [] col.type = "Text" -> "text"
      [] col.type = "Picklist" -> "picklist"
      [] OTHER -> col.type
buildColumn(col) ==
    IF col.isLink = TRUE
    THEN [kind |-> "link", label |-> col.label, fieldName |-> col.fieldName,
          type |-> "button", sortable |-> (col.sortable = TRUE)]
    ELSE [kind |-> "data", label |-> col.label, fieldName |-> col.fieldName,
          type |-> columnType(col), sortable |-> (col.sortable = TRUE)]
buildTableColumns(columns) ==
    [k \in DOMAIN columns |-> buildColumn(columns[k])] \o <<ActionColumn>>
SortableFields == {tableColumns[k].fieldName : k \in {j \in DOMAIN tableColumns : tableColumns[j].sortable}}

(***************************************************************************)
(* crossOrgRecordsViewer.js: handlers                                      *)
(***************************************************************************)
LoadCall(objectType, term) ==
    [kind |-> "getRecords", objectType |-> objectType, recordLimit |-> FETCH_LIMIT,
     searchTerm |-> term]
\* a getRecords promise
PendingLoad(id) == [id |-> id]

\* loadRecords up to the getRecords call, lines 148-162
loadRecords ==
    IF isFalsy(viewerObjectApiName)
    THEN /\ viewerErrorMessage' = "SObject API name is required."
         /\ UNCHANGED <<isLoading, hasSearched, loadEnv>>
    ELSE /\ loadsIssued < MaxLoads
         /\ isLoading' = TRUE
         /\ viewerErrorMessage' = ""
         /\ hasSearched' = TRUE
         /\ loadsIssued' = loadsIssued + 1
         /\ lastLoadCall' = LoadCall(viewerObjectApiName,
                                     IF searchTerm = <<>> THEN Null ELSE Str(searchTerm))
         /\ loadsInFlight' = loadsInFlight \cup {PendingLoad(loadsIssued + 1)}

viewerConnectedCallback ==
    /\ viewerState = "created"
    /\ viewerState' = "connected"
    /\ IF ~isFalsy(viewerObjectApiName)
       THEN loadRecords
       ELSE UNCHANGED <<viewerErrorMessage, isLoading, hasSearched, loadEnv>>
    /\ UNCHANGED <<viewerObjectApiName, tableData, tableColumns, currentPage, pageSize,
                   sortedBy, sortedDirection, searchTerm, searchTimeout, deleteEnv,
                   openEnv, modalOwnVars, timerEnv, envVars, pureVars>>

\* .then((response) => ...) of getRecords, lines 163-178
LoadResolve(call, response) ==
    /\ call \in loadsInFlight
    /\ loadsInFlight' = loadsInFlight \ {call}
    /\ isLoading' = FALSE
    /\ IF response.success
       THEN /\ tableData' = IF response.recordsNull THEN <<>> ELSE response.records
            /\ tableColumns' = buildTableColumns(IF response.columnsNull THEN <<>>
                                                 ELSE response.columns)
            /\ currentPage' = 1
            /\ UNCHANGED viewerErrorMessage
       ELSE /\ viewerErrorMessage' = IF response.errorMessage # ""
                                     THEN response.errorMessage ELSE "An error occurred."
            /\ tableData' = <<>>
            /\ tableColumns' = <<>>
            /\ UNCHANGED currentPage
    /\ sortedBy' = <<>>
    /\ sortedDirection' = "asc"
    /\ UNCHANGED <<viewerObjectApiName, hasSearched, pageSize, searchTerm, searchTimeout,
                   viewerState, loadsIssued, lastLoadCall, deleteEnv,
                   openEnv, modalOwnVars, timerEnv, tz, pureVars>>
    /\ lastReply' = IF response.success
                    THEN Reply("getRecords", "success",
                               IF response.recordsNull THEN <<>> ELSE response.records)
                    ELSE Reply("getRecords", "failure", <<>>)

\* .catch((error) => ...) of getRecords, lines 179-186
LoadReject(call, message) ==
    /\ call \in loadsInFlight
    /\ loadsInFlight' = loadsInFlight \ {call}
    /\ isLoading' = FALSE
    /\ viewerErrorMessage' = IF message # "" THEN message ELSE "Failed to load records."
    /\ tableData' = <<>>
    /\ tableColumns' = <<>>
    /\ sortedBy' = <<>>
    /\ sortedDirection' = "asc"
    /\ UNCHANGED <<viewerObjectApiName, hasSearched, currentPage, pageSize, searchTerm,
                   searchTimeout, viewerState, loadsIssued, lastLoadCall, deleteEnv,
                   openEnv, modalOwnVars, timerEnv, tz, pureVars>>
    /\ lastReply' = Reply("getRecords", "rejected", <<>>)

handlePageSizeChange(value) ==
    /\ viewerState = "connected"
    /\ LET parsed == parseInt(value)
           newSize == IF parsed = NaN \/ parsed = 0 THEN 25 ELSE parsed
       IN IF newSize = pageSize
          THEN UNCHANGED <<pageSize, currentPage>>
          ELSE /\ pageSize' = newSize
               /\ LET maxPage == IF ceilDiv(totalRecords, newSize) > 1
                                 THEN ceilDiv(totalRecords, newSize) ELSE 1
                  IN currentPage' = IF currentPage < maxPage THEN currentPage ELSE maxPage
    /\ UNCHANGED <<viewerObjectApiName, tableData, tableColumns, viewerErrorMessage,
                   isLoading, hasSearched, sortedBy, sortedDirection, searchTerm,
                   searchTimeout, viewerState, loadEnv, deleteEnv,
                   openEnv, modalOwnVars, timerEnv, envVars, pureVars>>

handleSearchChange(value) ==
    /\ viewerState = "connected"
    /\ nextTimerId <= MaxTimers
    /\ searchTerm' = value
    /\ LET cleared == IF searchTimeout # 0 THEN clearTimeout(timers, searchTimeout)
                      ELSE timers
       IN timers' = cleared \cup {Timer(nextTimerId, "load", <<>>, <<>>)}
    /\ searchTimeout' = nextTimerId
    /\ nextTimerId' = nextTimerId + 1
    /\ UNCHANGED <<viewerObjectApiName, tableData, tableColumns, viewerErrorMessage,
                   isLoading, hasSearched, currentPage, pageSize, sortedBy,
                   sortedDirection, viewerState, loadEnv, deleteEnv,
                   openEnv, modalOwnVars, envVars, pureVars>>

\* the callback of setTimeout at lines 142-145
LoadTimerFire(timer) ==
    /\ timer.kind = "load"
    /\ CanFire(timer)
    /\ timers' = timers \ {timer}
    /\ loadRecords
    /\ searchTimeout' = 0
    /\ UNCHANGED <<viewerObjectApiName, tableData, tableColumns, currentPage, pageSize,
                   sortedBy, sortedDirection, searchTerm, viewerState, deleteEnv,
                   openEnv, modalOwnVars, nextTimerId, envVars, pureVars>>

pageFrame == <<viewerObjectApiName, tableData, tableColumns, viewerErrorMessage,
               isLoading, hasSearched, pageSize, sortedBy, sortedDirection,
               searchTerm, searchTimeout, viewerState, loadEnv, deleteEnv,
               openEnv, modalOwnVars, timerEnv, envVars, pureVars>>
handleFirstPage ==
    /\ viewerState = "connected"
    /\ currentPage' = 1
    /\ UNCHANGED pageFrame
handlePrevPage ==
    /\ viewerState = "connected"
    /\ currentPage' = IF canGoPrev THEN currentPage - 1 ELSE currentPage
    /\ UNCHANGED pageFrame
handleNextPage ==
    /\ viewerState = "connected"
    /\ currentPage' = IF canGoNext THEN currentPage + 1 ELSE currentPage
    /\ UNCHANGED pageFrame
handleLastPage ==
    /\ viewerState = "connected"
    /\ currentPage' = totalPages
    /\ UNCHANGED pageFrame

handleSort(fieldName, sortDirection) ==
    /\ viewerState = "connected"
    /\ IF fieldName = <<>> \/ Len(tableData) = 0
       THEN UNCHANGED <<tableData, sortedBy, sortedDirection>>
       ELSE /\ tableData' = sortRows(tableData, fieldName, sortDirection = "asc")
            /\ sortedBy' = fieldName
            /\ sortedDirection' = sortDirection
    /\ UNCHANGED <<viewerObjectApiName, tableColumns, viewerErrorMessage, isLoading,
                   hasSearched, currentPage, pageSize, searchTerm, searchTimeout,
                   viewerState, loadEnv, deleteEnv, openEnv, modalOwnVars, timerEnv, envVars, pureVars>>

\* a deleteRecord promise and the record id it was called with
PendingDelete(id, recordId) == [id |-> id, recordId |-> recordId]
\* the answer to confirm()
Confirm(confirmed) == Reply("confirm", IF confirmed THEN "accepted" ELSE "declined", <<>>)

\* handleRowAction with the 'delete' action and handleDelete, lines 295-348;
\* confirmed is the answer to confirm()
handleDelete_unconfirmed(row, confirmed) ==
    /\ viewerState = "connected"
    /\ ~isFalsy(viewerObjectApiName) /\ ~isFalsy(row[FN_Id])
    /\ deletesIssued < MaxDeletes
    /\ isLoading' = TRUE
    /\ viewerErrorMessage' = ""
    /\ deletesIssued' = deletesIssued + 1
    /\ deletesInFlight' = deletesInFlight \cup {PendingDelete(deletesIssued + 1, row[FN_Id])}
    /\ lastReply' = Confirm(confirmed)
    /\ UNCHANGED <<viewerObjectApiName, tableData, tableColumns, hasSearched, currentPage,
                   pageSize, sortedBy, sortedDirection, searchTerm, searchTimeout,
                   viewerState, loadEnv, openEnv, modalOwnVars, timerEnv, tz, pureVars>>
handleDelete(row, confirmed) ==
    /\ viewerState = "connected"
    /\ IF isFalsy(viewerObjectApiName)
       THEN /\ viewerErrorMessage' = "Object type is required."
            /\ UNCHANGED <<isLoading, deleteEnv, lastReply>>
       ELSE IF isFalsy(row[FN_Id])
       THEN /\ viewerErrorMessage' = "Record Id is required to delete."
            /\ UNCHANGED <<isLoading, deleteEnv, lastReply>>
       ELSE IF ~confirmed
       THEN /\ lastReply' = Confirm(confirmed)
            /\ UNCHANGED <<viewerErrorMessage, isLoading, deleteEnv>>
       ELSE /\ deletesIssued < MaxDeletes
            /\ isLoading' = TRUE
            /\ viewerErrorMessage' = ""
            /\ deletesIssued' = deletesIssued + 1
            /\ deletesInFlight' =
                 deletesInFlight \cup {PendingDelete(deletesIssued + 1, row[FN_Id])}
            /\ lastReply' = Confirm(confirmed)
    /\ UNCHANGED <<viewerObjectApiName, tableData, tableColumns, hasSearched, currentPage,
                   pageSize, sortedBy, sortedDirection, searchTerm, searchTimeout,
                   viewerState, loadEnv, openEnv, modalOwnVars, timerEnv, tz, pureVars>>

\* .then((response) => ...) of deleteRecord, lines 350-364
DeleteResolve(call, response) ==
    /\ call \in deletesInFlight
    /\ deletesInFlight' = deletesInFlight \ {call}
    /\ IF response.success
       THEN loadRecords
       ELSE /\ isLoading' = FALSE
            /\ viewerErrorMessage' = IF response.errorMessage # ""
                                     THEN response.errorMessage ELSE "Failed to delete."
            /\ UNCHANGED <<hasSearched, loadEnv>>
    /\ UNCHANGED <<viewerObjectApiName, tableData, tableColumns, currentPage, pageSize,
                   sortedBy, sortedDirection, searchTerm, searchTimeout, viewerState,
                   deletesIssued, openEnv, modalOwnVars, timerEnv, tz, pureVars>>
    /\ lastReply' = Reply("deleteRecord", IF response.success THEN "success" ELSE "failure", <<>>)

\* .catch((error) => ...) of deleteRecord, lines 365-368
DeleteReject(call, message) ==
    /\ call \in deletesInFlight
    /\ deletesInFlight' = deletesInFlight \ {call}
    /\ isLoading' = FALSE
    /\ viewerErrorMessage' = IF message # "" THEN message ELSE "Failed to delete."
    /\ UNCHANGED <<viewerObjectApiName, tableData, tableColumns, hasSearched, currentPage,
                   pageSize, sortedBy, sortedDirection, searchTerm, searchTimeout,
                   viewerState, loadEnv, deletesIssued, openEnv, modalOwnVars, timerEnv, tz,
                   pureVars>>
    /\ lastReply' = Reply("deleteRecord", "rejected", <<>>)

(***************************************************************************)
(* Viewer: specification                                                   *)
(***************************************************************************)
ModalIdle ==
    /\ record = EmptyObj /\ objectApiName = Str(S_Account)
    /\ editFields = <<>> /\ lookupLabels = NoLabels
    /\ recordData = EmptyObj /\ saveLoading = FALSE /\ errorMessage = NoError
    /\ externalLookupOptionsMap = [fn \in FieldUniverse |-> <<>>]
    /\ externalLookupSearchTerm = [fn \in FieldUniverse |-> <<>>]
    /\ externalLookupDisplayMap = [fn \in FieldUniverse |-> <<>>]
    /\ externalLookupDropdownOpen = [fn \in FieldUniverse |-> FALSE]
    /\ externalSearchTimeouts = [fn \in FieldUniverse |-> 0]
    /\ initialRecordValues = EmptyObj
    /\ modalState = "none"
    /\ timers = {} /\ nextTimerId = 1
    /\ searchesInFlight = {} /\ searchesIssued = 0 /\ lastSearchCall = NoCall
    /\ saveCalls = {} /\ saveCallsIssued = 0 /\ lastSaveCall = NoCall
    /\ runKeystrokes = [fn \in FieldUniverse |-> <<>>]
    /\ runCalls = [fn \in FieldUniverse |-> <<>>]
    /\ latestSearch = [fn \in FieldUniverse |-> 0]
    /\ touched = FALSE

InitViewer == ViewerInit({Str(S_Account), EmptyStr}) /\ ModalIdle /\ PureIdle /\ tz = 0
NextViewer ==
    \/ viewerConnectedCallback
    \/ \E call \in loadsInFlight : \E response \in LoadResponses : LoadResolve(call, response)
    \/ \E call \in loadsInFlight : \E message \in LoadRejections : LoadReject(call, message)
    \/ \E value \in PageSizeInputs : handlePageSizeChange(value)
    \/ \E value \in SearchTerms : handleSearchChange(value)
    \/ \E tm \in timers : LoadTimerFire(tm)
    \/ handleFirstPage
    \/ handlePrevPage
    \/ handleNextPage
    \/ handleLastPage
    \/ \E fieldName \in SortableFields : \E dir \in {"asc", "desc"} : handleSort(fieldName, dir)
    \/ \E k \in DOMAIN displayTableData \cap 1..MaxRowChoice : \E confirmed \in BOOLEAN :
           handleDelete(displayTableData[k], confirmed)
    \/ \E call \in deletesInFlight : \E response \in DeleteResponses :
           DeleteResolve(call, response)
    \/ \E call \in deletesInFlight : \E message \in DeleteRejections :
           DeleteReject(call, message)
SpecViewer == InitViewer /\ [][NextViewer]_vars

(***************************************************************************)
(* Viewer and record modal together: row action 'edit', New, the modal     *)
(* that opens, and the reload after it closes.  One modal is on screen at  *)
(* a time.                                                                 *)
(***************************************************************************)
MaxFetches == 1

\* what getRecordForEdit can resolve with: record, editFields, lookupLabels
EditResponse(rec, fields, labels) ==
    [record |-> rec, editFields |-> fields, lookupLabels |-> labels]
EditResponses == {EditResponse(EditRecord, <<NameField>>, NoLabels)}
\* what getCreateFields can resolve with
CreateFieldSets == {<<NameField>>}
\* the values typed into the modal's inputs
AppFieldInputs == {S_b}
\* a getRecordForEdit ("edit") or getCreateFields ("create") promise
PendingFetch(id, kind) == [id |-> id, kind |-> kind]

\* handleRowAction with the 'edit' or 'viewRecord' action, lines 295-316
handleRowActionEdit(row) ==
    /\ viewerState = "connected"
    /\ IF isFalsy(viewerObjectApiName)
       THEN /\ viewerErrorMessage' = "Object type is required."
            /\ UNCHANGED openEnv
       ELSE IF isFalsy(row[FN_Id])
       THEN /\ viewerErrorMessage' = "Record Id is required to edit."
            /\ UNCHANGED openEnv
       ELSE /\ fetchesIssued < MaxFetches
            /\ fetchesIssued' = fetchesIssued + 1
            /\ fetchesInFlight' = fetchesInFlight \cup {PendingFetch(fetchesIssued + 1, "edit")}
            /\ UNCHANGED viewerErrorMessage
    /\ UNCHANGED <<viewerObjectApiName, tableData, tableColumns, isLoading, hasSearched,
                   currentPage, pageSize, sortedBy, sortedDirection, searchTerm,
                   searchTimeout, viewerState, loadEnv, deleteEnv, modalOwnVars,
                   timerEnv, envVars, pureVars>>

\* handleNewRecord, lines 326-332
handleNewRecord ==
    /\ viewerState = "connected"
    /\ IF isFalsy(viewerObjectApiName)
       THEN /\ viewerErrorMessage' = "Object type is required."
            /\ UNCHANGED openEnv
       ELSE /\ fetchesIssued < MaxFetches
            /\ fetchesIssued' = fetchesIssued + 1
            /\ fetchesInFlight' = fetchesInFlight \cup {PendingFetch(fetchesIssued + 1, "create")}
            /\ UNCHANGED viewerErrorMessage
    /\ UNCHANGED <<viewerObjectApiName, tableData, tableColumns, isLoading, hasSearched,
                   currentPage, pageSize, sortedBy, sortedDirection, searchTerm,
                   searchTimeout, viewerState, loadEnv, deleteEnv, modalOwnVars,
                   timerEnv, envVars, pureVars>>

\* CrossOrgRecordModal.open({...}), lines 281-287: a new modal component;
\* the promises and timers of an earlier modal act on that earlier component
openModal(rec, fields, labels) ==
    /\ modalState = "none"
    /\ record' = rec
    /\ objectApiName' = viewerObjectApiName
    /\ editFields' = fields
    /\ lookupLabels' = labels
    /\ recordData' = EmptyObj
    /\ saveLoading' = FALSE
    /\ errorMessage' = NoError
    /\ externalLookupOptionsMap' = [fn \in FieldUniverse |-> <<>>]
    /\ externalLookupSearchTerm' = [fn \in FieldUniverse |-> <<>>]
    /\ externalLookupDisplayMap' = [fn \in FieldUniverse |-> <<>>]
    /\ externalLookupDropdownOpen' = [fn \in FieldUniverse |-> FALSE]
    /\ externalSearchTimeouts' = [fn \in FieldUniverse |-> 0]
    /\ initialRecordValues' = EmptyObj
    /\ modalState' = "created"
    /\ runKeystrokes' = [fn \in FieldUniverse |-> <<>>]
    /\ runCalls' = [fn \in FieldUniverse |-> <<>>]
    /\ latestSearch' = [fn \in FieldUniverse |-> 0]
    /\ touched' = FALSE
    /\ searchesInFlight' = {}
    /\ saveCalls' = {}
    /\ timers' = {timer \in timers : timer.kind = "load"}
    /\ UNCHANGED <<searchesIssued, lastSearchCall, saveCallsIssued, lastSaveCall,
                   nextTimerId>>

\* getRecordForEdit .then (lines 310-315) and openRecordModal's first .then
EditFetchResolve(call, resp) ==
    /\ call \in fetchesInFlight /\ call.kind = "edit"
    /\ fetchesInFlight' = fetchesInFlight \ {call}
    /\ openModal(resp.record, resp.editFields, resp.lookupLabels)
    /\ UNCHANGED <<viewerObjectApiName, viewerFields, viewerState, loadEnv, deleteEnv,
                   fetchesIssued, tz, pureVars>>
    /\ lastReply' = Reply("getRecordForEdit", "success", <<>>)

\* getCreateFields resolves: openRecordModal's first .then, lines 280-288
CreateFetchResolve(call, fields) ==
    /\ call \in fetchesInFlight /\ call.kind = "create"
    /\ fetchesInFlight' = fetchesInFlight \ {call}
    /\ openModal(EmptyObj, fields, NoLabels)
    /\ UNCHANGED <<viewerObjectApiName, viewerFields, viewerState, loadEnv, deleteEnv,
                   fetchesIssued, tz, pureVars>>
    /\ lastReply' = Reply("getCreateFields", "success", <<>>)

\* .catch(() => {}) at lines 316 and 292
FetchReject(call) ==
    /\ call \in fetchesInFlight
    /\ fetchesInFlight' = fetchesInFlight \ {call}
    /\ UNCHANGED <<viewerObjectApiName, viewerFields, viewerState, loadEnv, deleteEnv,
                   fetchesIssued, modalVars, tz, pureVars>>
    /\ lastReply' = Reply(IF call.kind = "edit" THEN "getRecordForEdit" ELSE "getCreateFields", "rejected", <<>>)

\* the modal's promise resolves: .then((result) => ...), lines 289-291
ModalResult_noReload ==
    /\ modalState \in {"saved", "closed"}
    /\ modalState' = "none"
    /\ UNCHANGED <<viewerVars, modalProps, modalFields, searchEnv, saveEnv,
                   modalHistory, timerEnv, envVars, pureVars>>
ModalResult ==
    /\ modalState \in {"saved", "closed"}
    /\ modalState' = "none"
    /\ IF modalState = "saved"
       THEN loadRecords
       ELSE UNCHANGED <<viewerErrorMessage, isLoading, hasSearched, loadEnv>>
    /\ UNCHANGED <<viewerObjectApiName, tableData, tableColumns, currentPage, pageSize,
                   sortedBy, sortedDirection, searchTerm, searchTimeout, viewerState,
                   deleteEnv, openEnv, modalProps, modalFields, searchEnv, saveEnv,
                   modalHistory, timerEnv, envVars, pureVars>>

InitApp == ViewerInit({Str(S_Account)}) /\ ModalIdle /\ PureIdle /\ tz = 0
ViewerNextApp ==
    \/ viewerConnectedCallback
    \/ \E call \in loadsInFlight : \E response \in LoadResponses : LoadResolve(call, response)
    \/ \E call \in loadsInFlight : \E message \in LoadRejections : LoadReject(call, message)
    \/ handlePageSizeChange(LIMIT_OPTIONS[1])
    \/ handleNextPage
    \/ \E fieldName \in SortableFields : handleSort(fieldName, "desc")
    \/ \E k \in DOMAIN displayTableData \cap 1..MaxRowChoice :
           handleDelete(displayTableData[k], TRUE)
    \/ \E call \in deletesInFlight : \E response \in DeleteResponses :
           DeleteResolve(call, response)
    \/ \E call \in deletesInFlight : \E message \in DeleteRejections :
           DeleteReject(call, message)
    \/ \E k \in DOMAIN displayTableData \cap 1..MaxRowChoice :
           handleRowActionEdit(displayTableData[k])
    \/ handleNewRecord
    \/ \E call \in fetchesInFlight : \E resp \in EditResponses : EditFetchResolve(call, resp)
    \/ \E call \in fetchesInFlight : \E fields \in CreateFieldSets :
           CreateFetchResolve(call, fields)
    \/ \E call \in fetchesInFlight : FetchReject(call)
    \/ ModalResult
ModalNextApp ==
    \/ connectedCallback
    \/ \E fn \in PlainFieldNames : \E v \in AppFieldInputs : handleFieldChange(fn, v)
    \/ handleCancel
    \/ handleSave
    \/ \E call \in saveCalls : \E response \in SaveResponses :
           handleSaveResponse(call, response)
    \/ \E call \in saveCalls : \E message \in SaveRejections : SaveReject(call, message)
NextApp == ViewerNextApp \/ ModalNextApp
SpecApp == InitApp /\ [][NextApp]_vars

(***************************************************************************)
(* The viewer opening modal sessions, with every shape of answer           *)
(***************************************************************************)
\* getRecordForEdit may also answer with a record that carries no Id, or
\* with neither a record nor fields (record || {}, lines 283 and 311-313)
OpenEditResponses ==
    EditResponses
    \cup {EditResponse(RecordWithoutId, <<NameField>>, NoLabels),
          EditResponse(EmptyObj, <<>>, NoLabels)}
NextOpen ==
    \/ viewerConnectedCallback
    \/ \E call \in loadsInFlight : \E response \in LoadResponses : LoadResolve(call, response)
    \/ \E k \in DOMAIN displayTableData \cap 1..MaxRowChoice :
           handleRowActionEdit(displayTableData[k])
    \/ handleNewRecord
    \/ \E call \in fetchesInFlight : \E resp \in OpenEditResponses :
           EditFetchResolve(call, resp)
    \/ \E call \in fetchesInFlight : \E fields \in CreateFieldSets :
           CreateFetchResolve(call, fields)
    \/ \E call \in fetchesInFlight : FetchReject(call)
    \/ ModalResult
    \/ connectedCallback
    \/ \E fn \in PlainFieldNames : \E v \in AppFieldInputs : handleFieldChange(fn, v)
    \/ handleCancel
    \/ handleSave
    \/ \E call \in saveCalls : \E response \in SaveResponses :
           handleSaveResponse(call, response)
SpecOpen == InitApp /\ [][NextOpen]_vars

(***************************************************************************)
(* Viewer: paging over row sets of up to 205 rows, every page size option  *)
(***************************************************************************)
PagingRowCounts == {1, 50, 205}
PagingResponses ==
    {LoadResponse(TRUE, FALSE, Rows(count), FALSE, RawColumns, "") : count \in PagingRowCounts}
    \cup {LoadResponse(TRUE, TRUE, <<>>, TRUE, <<>>, "")}
\* the options of the page size combobox and an empty value
AllPageSizeInputs == Range(LIMIT_OPTIONS) \cup {<<>>}

NextPaging ==
    \/ viewerConnectedCallback
    \/ \E call \in loadsInFlight : \E response \in PagingResponses : LoadResolve(call, response)
    \/ \E value \in AllPageSizeInputs : handlePageSizeChange(value)
    \/ \E value \in SearchTerms : handleSearchChange(value)
    \/ \E tm \in timers : LoadTimerFire(tm)
    \/ handleFirstPage
    \/ handlePrevPage
    \/ handleNextPage
    \/ handleLastPage
SpecPaging == InitViewer /\ [][NextPaging]_vars

(***************************************************************************)
(* normalizedValue as a function: applied to two drawn values in a browser *)
(* of a drawn time zone                                                    *)
(***************************************************************************)
\* minutes east of UTC: New York (winter), UTC, Berlin (winter)
TimeZones == {-300, 0, 60}
NormDays == {1, 5}
NormInputs ==
    UNION {{Str(form) : form \in DateForms(d)} : d \in NormDays}
    \cup {Wrapped(IsoDate(d)) : d \in NormDays}
    \cup {Null, EmptyStr, Str(S_a_padded), Str(S_a)}

InitNorm ==
    /\ ModalIdle /\ ViewerIdle
    /\ tz \in TimeZones
    /\ lastReply = NoReply
    /\ nvA \in NormInputs /\ nvB \in NormInputs
    /\ nvOutA = <<>> /\ nvOutB = <<>> /\ nvApplied = FALSE
    /\ TargetIdle /\ FormatIdle /\ SchemaIdle
ApplyNormalizedValue ==
    /\ ~nvApplied
    /\ nvOutA' = normalizedValue(nvA)
    /\ nvOutB' = normalizedValue(nvB)
    /\ nvApplied' = TRUE
    /\ UNCHANGED <<nvA, nvB, targetVars, formatVars, schemaVars, envVars, modalVars,
                   viewerVars>>
NextNorm == ApplyNormalizedValue
SpecNorm == InitNorm /\ [][NextNorm]_vars

(***************************************************************************)
(* getLookupObjectForField on drawn field descriptors                      *)
(***************************************************************************)
TargetFieldNames ==
    { <<"O","w","n","e","r","I","d">>,
      <<"A","c","c","o","u","n","t",".","P","a","r","e","n","t","I","d">>,
      <<"N","a","m","e">>,
      <<"I","d">>,
      <<"o","w","n","e","r","I","D">>,
      <<"a",".","I","d">>,
      <<"a",".","b",".","O","W","N","E","R","i","d">>,
      <<"x","i","d">>,
      <<"P","a","r","e","n","t","I","d",".","N","a","m","e">>,
      <<" ","O","w","n","e","r","I","d"," ">>,
      <<"A","c","c","o","u","n","t",".">> }
ConfiguredTargets ==
    { Null, EmptyStr, Str(S_blank), Str(<<" ","U","s","e","r"," ">>),
      Str(<<"C","o","n","t","a","c","t">>) }
TargetDefs ==
    { FieldDef(name, <<>>, "text", FALSE, TRUE, target) :
          name \in TargetFieldNames, target \in ConfiguredTargets }

InitTarget ==
    /\ ModalIdle /\ ViewerIdle /\ tz = 0 /\ lastReply = NoReply
    /\ NormIdle /\ FormatIdle /\ SchemaIdle
    /\ ltDef \in TargetDefs /\ ltOut = <<>> /\ ltApplied = FALSE
ApplyGetLookupObjectForField ==
    /\ ~ltApplied
    /\ ltOut' = getLookupObjectForField(ltDef)
    /\ ltApplied' = TRUE
    /\ UNCHANGED <<ltDef, normVars, formatVars, schemaVars, envVars, modalVars,
                   viewerVars>>
NextTarget == ApplyGetLookupObjectForField
SpecTarget == InitTarget /\ [][NextTarget]_vars

(***************************************************************************)
(* isValidEmail and isValidPhone on drawn values                           *)
(***************************************************************************)
EmailLocals == {<<"a">>, <<"a",".","b","+","1">>, <<"a"," ","b">>, <<>>, <<"a","@">>}
EmailDomains == {<<"b">>, <<"b",".","c">>, <<>>, <<"b","_">>}
EmailTlds == {<<"c","o">>, <<"c">>, <<"c","0">>, <<"c","o","m">>}
EmailInputs ==
    {Str(local \o <<"@">> \o domain \o <<".">> \o tld) :
        local \in EmailLocals, domain \in EmailDomains, tld \in EmailTlds}
PhoneInputs ==
    { Str(<<"4","1","5","-","5","5","5","-","0","1","0","0">>),
      Str(<<"1","2","3","4","5">>),
      Str(<<"1","2","3","4","5","6","7","8","9">>),
      Str(<<"1","2","3","4","5","6","7","8","9","0">>),
      Str(<<" ","(","4","1","5",")"," ","5","5","5"," ","0","1","0","0"," ">>),
      Str(<<"n","o","t","-","a","n","-","e","m","a","i","l">>) }
FormatInputs ==
    EmailInputs \cup PhoneInputs
    \cup {Null, Undefined, EmptyStr, Str(S_blank), Str(S_mail),
          Str(<<" ">> \o S_mail \o <<" ">>), Str(<<"a","@","b">>)}

InitFormat ==
    /\ ModalIdle /\ ViewerIdle /\ tz = 0 /\ lastReply = NoReply
    /\ NormIdle /\ TargetIdle /\ SchemaIdle
    /\ fvIn \in FormatInputs /\ fvEmail = TRUE /\ fvPhone = TRUE /\ fvApplied = FALSE
ApplyFormatChecks ==
    /\ ~fvApplied
    /\ fvEmail' = isValidEmail(fvIn)
    /\ fvPhone' = isValidPhone(fvIn)
    /\ fvApplied' = TRUE
    /\ UNCHANGED <<fvIn, normVars, targetVars, schemaVars, envVars, modalVars,
                   viewerVars>>
NextFormat == ApplyFormatChecks
SpecFormat == InitFormat /\ [][NextFormat]_vars

(***************************************************************************)
(* buildTableColumns and fieldsWithValues on drawn configuration entries   *)
(***************************************************************************)
\* the object fieldsWithValues builds for field f, lines 97-122
inputType(f) ==
    CASE rawType(f) = "phone" -> "tel"
      [] OTHER -> rawType(f)
formField(f) ==
    [fieldName |-> f.fieldName, label |-> f.label, value |-> fieldValue(f),
     isExternalLookup |-> isExternalLookup(f), inputType |-> inputType(f),
     required |-> (f.required = TRUE),
     externalOptions |-> externalLookupOptionsMap[f.fieldName],
     externalLookupDropdownOpen |-> (externalLookupDropdownOpen[f.fieldName] = TRUE)]
\* fieldsWithValues with this.editFields = fields
fieldsWithValues(fields) == [i \in DOMAIN fields |-> formField(fields[i])]

\* a configuration entry as the server sends it: a column and a form field
ConfigEntry(fieldName, label, type, order, isLink, sortable, required, isLookup) ==
    [fieldName |-> fieldName, label |-> label, type |-> type, order |-> order,
     isLink |-> isLink, sortable |-> sortable, required |-> required,
     isExternalLookup |-> isLookup, lookupObjectApiName |-> Null]
ConfigEntries ==
    { ConfigEntry(FN_Name, <<"N","a","m","e">>, "", 1, TRUE, TRUE, TRUE, FALSE),
      ConfigEntry(FN_Email, <<>>, "Email", 2, FALSE, TRUE, FALSE, FALSE),
      ConfigEntry(FN_OwnerId, <<"O","w","n","e","r">>, "text", 2, FALSE, FALSE, TRUE, TRUE),
      ConfigEntry(FN_Id, <<"I","d">>, "Picklist", 3, FALSE, FALSE, FALSE, FALSE) }
\* every order in which a set of entries can be supplied
Orderings(entries) ==
    {seq \in [1..Cardinality(entries) -> entries] :
        \A i, j \in DOMAIN seq : i # j => seq[i] # seq[j]}
MaxBuilds == 2

InitSchema ==
    /\ ModalIdle /\ ViewerIdle /\ tz = 0 /\ lastReply = NoReply
    /\ NormIdle /\ TargetIdle /\ FormatIdle
    /\ \E entries \in SUBSET ConfigEntries : cfgEntries \in Orderings(entries)
    /\ cfgColumns = <<>> /\ cfgFields = <<>> /\ cfgBuilds = 0
ApplyResolver ==
    /\ cfgBuilds < MaxBuilds
    /\ cfgColumns' = buildTableColumns(cfgEntries)
    /\ cfgFields' = fieldsWithValues(cfgEntries)
    /\ cfgBuilds' = cfgBuilds + 1
    /\ UNCHANGED <<cfgEntries, normVars, targetVars, formatVars, envVars, modalVars,
                   viewerVars>>
NextSchema == ApplyResolver
SpecSchema == InitSchema /\ [][NextSchema]_vars

(***************************************************************************)
(* Claims on the record modal                                              *)
(***************************************************************************)
\* C1: when a search completes that is not the one most recently issued for
\* its field, the field's option list is left as it was.
C1_StaleResultDiscarded ==
    [][\A q \in searchesInFlight :
          (q \notin searchesInFlight' /\ q.id # latestSearch[q.fieldName])
              => externalLookupOptionsMap'[q.fieldName] = externalLookupOptionsMap[q.fieldName]]_vars

\* the searchExternalRecords calls a finished run of keystrokes must have caused
RunTyped(fn) == runKeystrokes[fn] # <<>>
LastKeystrokeTerm(fn) == trim(runKeystrokes[fn][Len(runKeystrokes[fn])])
OneTimerPerField == \A fn \in LookupFieldNames : Cardinality(PendingSearchTimers(fn)) <= 1

C3_NoSecondSubmitInFlight ==
    [][(saveLoading /\ saveCalls # {}) => saveCallsIssued' = saveCallsIssued]_vars

\* a step of handleSave (it changes nothing but the error, saveLoading and
\* the save calls)
SaveStep ==
    /\ modalState = "open" /\ modalState' = "open"
    /\ recordData' = recordData /\ timers' = timers
    /\ searchesInFlight' = searchesInFlight
    /\ saveCalls \subseteq saveCalls'
    /\ handleSave

\* the conditions under which handleSave rejects the submit locally
SubmitRejected ==
    \/ trim(String(objectApiName)) = <<>>
    \/ isEditMode /\ trim(String(record[FN_Id])) = <<>>
    \/ ~inputsValid
    \/ ~externalRequiredValid
    \/ formatFailures # {}
    \/ isEditMode /\ \A fn \in FieldNames :
           normalizedValue(recordData[fn]) = normalizedValue(initialRecordValues[fn])

\* C4: a handleSave that rejects the submit locally issues no call and
\* leaves recordData and the initial snapshot as they were.
C4_RejectedSubmitHasNoEffect ==
    [][(SaveStep /\ SubmitRejected)
          => /\ UNCHANGED <<saveCalls, saveCallsIssued, lastSaveCall>>
             /\ recordData' = recordData
             /\ initialRecordValues' = initialRecordValues
             /\ errorMessage' # NoError]_vars

\* a submit was rejected for an empty change-set after the user had edited
C4_Witness ==
    /\ errorMessage = Error("No fields were changed.")
    /\ touched /\ saveCallsIssued = 0
    /\ recordData # initialRecordValues

\* C5: in edit mode a valid submit with an empty change-set ends with the
\* 'No fields were changed.' error, saveLoading false, the modal open and no
\* call issued.
C5_EmptyChangeSetRejected ==
    [][(SaveStep /\ isEditMode /\ allValid
            /\ trim(String(objectApiName)) # <<>> /\ trim(String(record[FN_Id])) # <<>>
            /\ \A fn \in FieldNames :
                 normalizedValue(recordData[fn]) = normalizedValue(initialRecordValues[fn]))
          => /\ errorMessage' = Error("No fields were changed.")
             /\ saveLoading' = FALSE
             /\ modalState' = "open"
             /\ UNCHANGED <<saveCalls, saveCallsIssued, lastSaveCall>>]_vars

\* C6: submitting an edit session the user has not touched builds an empty
\* payload and issues no call.
C6_UntouchedEditHasEmptyPayload ==
    [][(SaveStep /\ isEditMode /\ ~touched)
          => /\ DOMAIN buildPayload = {}
             /\ UNCHANGED <<saveCalls, saveCallsIssued, lastSaveCall>>
             /\ errorMessage' # NoError]_vars

\* an untouched edit session was submitted and reached the change-set step
C6_Witness ==
    /\ isEditMode /\ ~touched
    /\ \E fn \in FieldNames : ~isFalsy(initialRecordValues[fn])
    /\ errorMessage = Error("No fields were changed.")

\* C7: the payload of updateRecord has exactly the configured fields whose
\* normalized working value differs from the normalized snapshot value, each
\* with the raw working value ('' for null or undefined); null, undefined
\* and '' normalize alike and strings are trimmed.
C7_UpdatePayloadIsTheChangeSet ==
    [][(SaveStep /\ isEditMode /\ saveCallsIssued' # saveCallsIssued)
          => LET payload == lastSaveCall'.recordDataJson
             IN /\ lastSaveCall'.kind = "updateRecord"
                /\ DOMAIN payload \subseteq FieldNames
                /\ \A fn \in FieldNames :
                      (fn \in DOMAIN payload) <=>
                          normalizedValue(recordData[fn]) # normalizedValue(initialRecordValues[fn])
                /\ \A fn \in DOMAIN payload :
                      payload[fn] = IF isNullish(recordData[fn]) THEN EmptyStr
                                    ELSE recordData[fn]
                /\ \A fn \in FieldNames :
                      /\ isFalsy(recordData[fn]) => normalizedValue(recordData[fn]) = <<>>
                      /\ recordData[fn].t = "string" =>
                            normalizedValue(recordData[fn]) = normalizedValue(Str(trim(recordData[fn].s)))]_vars

\* an update was sent that leaves out a field whose raw value differs from
\* the snapshot only by padding and wrapping
C7_Witness ==
    /\ lastSaveCall # NoCall /\ lastSaveCall.kind = "updateRecord"
    /\ saveCalls # {} /\ saveCallsIssued = 1
    /\ recordData[FN_Name] = Str(S_a_padded)
    /\ FN_Name \in FieldNames
    /\ DOMAIN lastSaveCall.recordDataJson = {FN_Email}

\* C8: the payload of createRecord has exactly the configured fields whose
\* working value is not null, undefined or '', each with its raw value,
\* whatever the snapshot holds.
C8_CreatePayloadIsTheFilledFields ==
    [][(SaveStep /\ ~isEditMode /\ saveCallsIssued' # saveCallsIssued)
          => LET payload == lastSaveCall'.recordDataJson
             IN /\ lastSaveCall'.kind = "createRecord"
                /\ DOMAIN payload =
                     {fn \in FieldNames : ~isNullish(recordData[fn]) /\ recordData[fn] # EmptyStr}
                /\ \A fn \in DOMAIN payload : payload[fn] = recordData[fn]]_vars

\* a create was sent with a value equal to the one in the snapshot
C8_Witness ==
    /\ lastSaveCall # NoCall /\ lastSaveCall.kind = "createRecord"
    /\ ~isFalsy(initialRecordValues[FN_Name])
    /\ FN_Name \in DOMAIN lastSaveCall.recordDataJson
    /\ lastSaveCall.recordDataJson[FN_Name] = initialRecordValues[FN_Name]

(***************************************************************************)
(* Claims on normalizedValue and on the viewer's paging                    *)
(***************************************************************************)
\* the text normalizedValue reads from a value
valueText(val) ==
    IF isNullish(val) THEN <<>>
    ELSE trim(IF val.t = "object" THEN val.s ELSE String(val))

\* C9: two values that write the same calendar date in different formats
\* normalize to the same YYYY-MM-DD string, the one of that date, so that
\* the change-set filter (normalized working value differs from normalized
\* original value) leaves the field out of the payload.
C9_SameDateNormalizesEqual ==
    (nvApplied /\ WrittenDay(valueText(nvA)) # 0
               /\ WrittenDay(valueText(nvA)) = WrittenDay(valueText(nvB)))
        => /\ nvOutA = nvOutB
           /\ nvOutA = IsoDate(WrittenDay(valueText(nvA)))

\* C10: in every state of the viewer the page index is within the pages:
\* 1 <= currentPage <= totalPages.
C10_PageWithinBounds ==
    viewerState = "connected" => (1 <= currentPage /\ currentPage <= totalPages)

\* Math.ceil(a / b), stated by its bounds: the least n with n * b >= a
IsCeiling(n, a, b) == n * b >= a /\ (n - 1) * b < a

\* C11: for a non-empty row set totalPages is ceil(rowCount / pageSize), and
\* a page-size change sets currentPage to the smaller of the previous page
\* and ceil(rowCount / newPageSize); 205 rows at page size 50 are 5 pages,
\* and changing to page size 100 on page 5 sets the page to 3.
C11_PageCountAndClamp ==
    [][(viewerState = "connected" /\ totalRecords > 0)
          => /\ IsCeiling(totalPages, totalRecords, pageSize)
             /\ (totalRecords = 205 /\ pageSize = 50) => totalPages = 5
             /\ (pageSize' # pageSize) =>
                   \E maxPage \in 1..totalRecords :
                      /\ IsCeiling(maxPage, totalRecords, pageSize')
                      /\ currentPage' = IF currentPage < maxPage THEN currentPage ELSE maxPage
             /\ (totalRecords = 205 /\ pageSize = 50 /\ currentPage = 5 /\ pageSize' = 100)
                   => currentPage' = 3]_vars

\* 205 rows shown 100 a page, on the last page, the third
C11_Witness ==
    /\ totalRecords = 205 /\ pageSize = 100
    /\ currentPage = 3 /\ ~canGoNext

(***************************************************************************)
(* Claims on the viewer and the modal together                             *)
(***************************************************************************)
\* a step in which a getRecords call is answered with success
LoadSucceeds ==
    /\ loadsInFlight' # loadsInFlight /\ loadsInFlight' \subseteq loadsInFlight
    /\ lastReply'.call = "getRecords" /\ lastReply'.outcome = "success"
\* a step in which a deleteRecord call is answered
DeleteAnswered(outcome) ==
    /\ deletesInFlight' # deletesInFlight /\ deletesInFlight' \subseteq deletesInFlight
    /\ lastReply' = Reply("deleteRecord", outcome, <<>>)
\* a step that issues a getRecords call
LoadIssued == loadsIssued' = loadsIssued + 1 /\ lastLoadCall'.kind = "getRecords"

\* C12: when the modal has closed with saved=true, and when a delete is
\* answered with success, the viewer issues a load; and a load answered with
\* success makes tableData the returned records, clears the sort (no field,
\* asc) and sets currentPage to 1, whatever they were.
C12_ReloadReplacesView ==
    [][/\ (modalState = "saved" /\ modalState' = "none") => LoadIssued
       /\ DeleteAnswered("success") => LoadIssued
       /\ LoadSucceeds =>
             /\ tableData' = lastReply'.records
             /\ sortedBy' = <<>> /\ sortedDirection' = "asc"
             /\ currentPage' = 1]_vars

\* the reload after a saved modal was answered with rows
C12_Witness ==
    /\ saveCallsIssued >= 1 /\ modalState = "none" /\ fetchesIssued = 1
    /\ loadsIssued = 2 /\ loadsInFlight = {}
    /\ lastReply.call = "getRecords" /\ lastReply.outcome = "success"
    /\ tableData = Rows(SmallRowCount) /\ sortedBy = <<>> /\ currentPage = 1

\* a step in which a call of the viewer or the modal is answered
LoadAnswered(outcome) ==
    /\ loadsInFlight' # loadsInFlight /\ loadsInFlight' \subseteq loadsInFlight
    /\ lastReply' = Reply("getRecords", outcome, <<>>)
SaveAnswered(outcome) ==
    /\ saveCalls' # saveCalls /\ saveCalls' \subseteq saveCalls
    /\ lastReply' = Reply("save", outcome, <<>>)
Failures == {"failure", "rejected"}

\* C13: when getRecords, deleteRecord, updateRecord or createRecord answers
\* success=false or rejects, an error message is set and the rows, columns,
\* sort and page of the viewer and the working values of the modal are what
\* they were before.
C13_FailureLeavesStateIntact ==
    [][\A outcome \in Failures :
          /\ (LoadAnswered(outcome) \/ DeleteAnswered(outcome))
                => /\ viewerErrorMessage' # ""
                   /\ UNCHANGED <<tableData, tableColumns, sortedBy, sortedDirection,
                                  currentPage, recordData>>
          /\ SaveAnswered(outcome)
                => /\ errorMessage' # NoError
                   /\ UNCHANGED <<tableData, tableColumns, sortedBy, sortedDirection,
                                  currentPage, recordData>>]_vars

\* C14: when updateRecord or createRecord answers success=false or rejects,
\* the modal stays as it was (not closed), saveLoading is false and an error
\* message is set; the modal closes with saved=true only in the step of a
\* success answer, and the modal's result makes the viewer reload only when
\* it closed with saved=true.  (That a later handleSave submits again is the
\* witness.)
C14_FailedSaveReturnsToEditing ==
    [][/\ \A outcome \in Failures :
             SaveAnswered(outcome)
                => /\ modalState' = modalState
                   /\ saveLoading' = FALSE
                   /\ errorMessage' # NoError
       /\ (modalState' = "saved" /\ modalState # "saved") => SaveAnswered("success")
       /\ (modalState # "none" /\ modalState' = "none" /\ loadsIssued' # loadsIssued)
             => modalState = "saved"]_vars

\* after a failed answer, with no other call in flight, handleSave has
\* submitted again
C14_Witness ==
    /\ modalState = "open"
    /\ lastReply.call = "save" /\ lastReply.outcome \in Failures
    /\ saveLoading /\ saveCallsIssued = 2 /\ Cardinality(saveCalls) = 1
    /\ errorMessage = NoError

\* C15: deleteRecord is called only in a step in which the user accepts the
\* confirmation prompt, and for a record of the page shown; when the user
\* declines, no call is made and tableData, isLoading, errorMessage, sort and
\* page are unchanged; a success answer of deleteRecord issues a reload; a
\* failed one sets an error message and issues no load.
C15_DeleteOnlyWhenConfirmed ==
    [][/\ (deletesIssued' # deletesIssued)
             => /\ lastReply'.call = "confirm" /\ lastReply'.outcome = "accepted"
                /\ \A d \in deletesInFlight' \ deletesInFlight :
                      \E k \in DOMAIN displayTableData :
                         d.recordId = displayTableData[k][FN_Id]
       /\ (lastReply' # lastReply /\ lastReply'.call = "confirm"
                                  /\ lastReply'.outcome = "declined")
             => UNCHANGED <<deletesIssued, deletesInFlight, tableData, isLoading,
                            viewerErrorMessage, sortedBy, sortedDirection, currentPage>>
       /\ DeleteAnswered("success") => LoadIssued
       /\ \A outcome \in Failures :
             DeleteAnswered(outcome)
                => viewerErrorMessage' # "" /\ UNCHANGED <<loadsIssued, loadsInFlight>>]_vars

\* a declined prompt on a sorted table, nothing deleted
C15_Witness ==
    /\ lastReply.call = "confirm" /\ lastReply.outcome = "declined"
    /\ deletesIssued = 0 /\ sortedBy # <<>> /\ Len(tableData) > 0

\* a step in which a getRecordForEdit or getCreateFields call rejects
FetchRejected ==
    /\ fetchesInFlight' # fetchesInFlight /\ fetchesInFlight' \subseteq fetchesInFlight
    /\ lastReply'.call \in {"getRecordForEdit", "getCreateFields"}
    /\ lastReply'.outcome = "rejected"

\* C16: every rejection of getRecords, getRecordForEdit, getCreateFields,
\* deleteRecord, updateRecord or createRecord ends in a state that shows an
\* error message: the viewer's for its calls, the modal's for the save calls.
C16_RejectionShowsError ==
    [][/\ (LoadAnswered("rejected") \/ DeleteAnswered("rejected") \/ FetchRejected)
             => viewerErrorMessage' # ""
       /\ SaveAnswered("rejected") => errorMessage' # NoError]_vars

\* C17: when a searchExternalRecords call rejects, the option list of its
\* field becomes empty and the modal's errorMessage is not set.
C17_FailedSearchEmptiesOptions ==
    [][\A q \in searchesInFlight :
          (q \notin searchesInFlight'
             /\ lastReply' = Reply("searchExternalRecords", "rejected", <<>>))
              => /\ externalLookupOptionsMap'[q.fieldName] = <<>>
                 /\ errorMessage' = errorMessage]_vars

(***************************************************************************)
(* Claims on the modal's validation                                        *)
(***************************************************************************)
\* a required external-lookup field with typed search text and no selection
TypedButUnselected(fn) ==
    /\ fn \in LookupFieldNames /\ FieldByName(fn).required
    /\ externalLookupSearchTerm[fn] # <<>>
    /\ isFalsy(recordData[fn])

\* C18: a handleSave with a required external-lookup field that holds typed
\* text and no selected option is rejected with an error and issues no call;
\* and every keystroke in a lookup field clears its working value and its
\* selected label.
C18_TypedLookupTextIsNotAValue ==
    [][/\ (SaveStep /\ \E fn \in FieldNames : TypedButUnselected(fn))
             => /\ UNCHANGED <<saveCalls, saveCallsIssued, lastSaveCall>>
                /\ errorMessage' # NoError
       /\ \A fn \in LookupFieldNames :
             (modalState = "open" /\ runKeystrokes'[fn] # runKeystrokes[fn])
                => /\ recordData'[fn] = EmptyStr
                   /\ externalLookupDisplayMap'[fn] = <<>>]_vars

\* an edit session whose Owner was selected at opening: after typing, the
\* submit was rejected and nothing was sent
C18_Witness ==
    /\ modalState = "open"
    /\ ~isFalsy(initialRecordValues[FN_OwnerId]) /\ lookupLabels[FN_OwnerId] # <<>>
    /\ TypedButUnselected(FN_OwnerId)
    /\ externalLookupDisplayMap[FN_OwnerId] = <<>>
    /\ errorMessage = Error("Please fix validation errors before saving.")
    /\ saveCallsIssued = 0

\* a required plain field that was empty in the record opened for edit and
\* is still empty
RequiredFieldLeftEmpty(f) ==
    /\ isEditMode
    /\ f.required /\ ~isExternalLookup(f)
    /\ isFalsy(record[f.fieldName])
    /\ fieldValue(f) = <<>>

\* C19: a handleSave on a record opened for edit with a required field that
\* was empty and is still empty issues no updateRecord call and sets an
\* error message that names that field.
C19_EmptyRequiredFieldIsNamed ==
    [][\A i \in DOMAIN editFields :
          (SaveStep /\ RequiredFieldLeftEmpty(editFields[i]))
             => /\ UNCHANGED <<saveCalls, saveCallsIssued, lastSaveCall>>
                /\ errorMessage' # NoError
                /\ errorMessage'.label \in
                      {editFields[i].label, editFields[i].fieldName}]_vars

(***************************************************************************)
(* Claims on the viewer's sort                                             *)
(***************************************************************************)
\* the row has no value to sort by: null, undefined or ''
EmptySortValue(row, fieldName) ==
    isNullish(row[fieldName]) \/ row[fieldName] = EmptyStr

\* C20: after handleSort the rows without a value in the sort field stand
\* after all rows with one, in the ascending and in the descending direction,
\* and the rows with a value are in that direction's order of their
\* lower-cased values.
C20_EmptyValuesSortLast ==
    (sortedBy # <<>>) =>
        \A i, j \in DOMAIN tableData :
            i < j =>
                /\ EmptySortValue(tableData[i], sortedBy)
                      => EmptySortValue(tableData[j], sortedBy)
                /\ (~EmptySortValue(tableData[i], sortedBy)
                    /\ ~EmptySortValue(tableData[j], sortedBy))
                      => IF sortedDirection = "asc"
                         THEN ~stringLess(sortKey(tableData[j][sortedBy]),
                                          sortKey(tableData[i][sortedBy]))
                         ELSE ~stringLess(sortKey(tableData[i][sortedBy]),
                                          sortKey(tableData[j][sortedBy]))

(***************************************************************************)
(* Claims on the modal's lookup fields                                     *)
(***************************************************************************)
\* what the modal holds for one lookup field: working value, display label,
\* search term, option list, dropdown flag, timer handle and pending timers
LookupFieldState(fn) ==
    <<recordData[fn], externalLookupDisplayMap[fn], externalLookupSearchTerm[fn],
      externalLookupOptionsMap[fn], externalLookupDropdownOpen[fn],
      externalSearchTimeouts[fn], {tm \in timers : tm.fieldName = fn}>>

\* a lookup event of field fn: keystroke, debounce-timer fire, query
\* completion or failure, selection, clear, blur and its delayed close
LookupEventOn(fn) ==
    \/ \E v \in KeystrokeValues : handleExternalLookupInput(fn, v)
    \/ \E tm \in timers :
          tm.fieldName = fn /\ (SearchTimerFire(tm) \/ BlurTimerFire(tm))
    \/ \E call \in searchesInFlight :
          /\ call.fieldName = fn
          /\ \/ \E result \in SearchResults : SearchResolve(call, result)
             \/ SearchReject(call)
    \/ \E i \in DOMAIN externalLookupOptionsMap[fn] :
          handleExternalLookupSelect(fn, externalLookupOptionsMap[fn][i])
    \/ handleExternalLookupClear(fn)
    \/ handleExternalLookupBlur(fn)

\* C21: a lookup event of field f leaves the working value, display label,
\* search term, option list, dropdown flag and pending timers of every other
\* lookup field unchanged.
C21_LookupFieldsIndependent ==
    [][\A f \in LookupFieldNames :
          LookupEventOn(f) =>
              \A g \in LookupFieldNames \ {f} :
                  LookupFieldState(g)' = LookupFieldState(g)]_vars

\* two lookup fields in the middle of their own runs: the options of OwnerId
\* have arrived while the debounce timer of Ref is pending
C21_Witness ==
    /\ modalState = "open"
    /\ {FN_OwnerId, FN_Ref} \subseteq LookupFieldNames
    /\ externalLookupOptionsMap[FN_OwnerId] # <<>>
    /\ externalLookupSearchTerm[FN_OwnerId] # <<>>
    /\ externalLookupSearchTerm[FN_Ref] # <<>>
    /\ PendingSearchTimers(FN_Ref) # {}
    /\ externalLookupDropdownOpen[FN_Ref]

\* C22: selecting an option of a lookup field writes the option's value into
\* the field's working value and its label (the value when the option has no
\* label) into the display map, and leaves the field with no options, an
\* empty search term and a closed dropdown.
C22_SelectionWritesValueAndLabel ==
    [][\A fn \in LookupFieldNames :
          \A i \in DOMAIN externalLookupOptionsMap[fn] :
              LET option == externalLookupOptionsMap[fn][i]
              IN handleExternalLookupSelect(fn, option) =>
                    /\ recordData'[fn] = Str(option.value)
                    /\ externalLookupDisplayMap'[fn] =
                          (IF option.label = <<>> THEN option.value ELSE option.label)
                    /\ externalLookupOptionsMap'[fn] = <<>>
                    /\ externalLookupSearchTerm'[fn] = <<>>
                    /\ ~externalLookupDropdownOpen'[fn]]_vars

\* the option without a label was selected: its value is shown as the label
C22_Witness ==
    /\ modalState = "open" /\ touched
    /\ FN_OwnerId \in LookupFieldNames
    /\ recordData[FN_OwnerId] = Str(S_u1)
    /\ externalLookupDisplayMap[FN_OwnerId] = S_u1
    /\ externalLookupOptionsMap[FN_OwnerId] = <<>>
    /\ externalLookupSearchTerm[FN_OwnerId] = <<>>
    /\ ~externalLookupDropdownOpen[FN_OwnerId]

\* the delayed closes of a blurred field that have not run yet
PendingBlurTimers(fn) == {tm \in timers : tm.kind = "blur" /\ tm.fieldName = fn}

\* C23: a blur on a lookup field leaves its dropdown flag as it is and starts
\* the 200 ms delayed close; the delayed close, when it runs, closes the
\* dropdown; a selection made while the delayed close is pending is applied
\* (value and label written).
C23_BlurClosesAfterGraceDelay ==
    [][\A fn \in LookupFieldNames :
          /\ handleExternalLookupBlur(fn) =>
                /\ externalLookupDropdownOpen' = externalLookupDropdownOpen
                /\ \E tm \in PendingBlurTimers(fn)' :
                      tm \notin timers /\ Delay(tm) = 200
          /\ \A tm \in PendingBlurTimers(fn) :
                BlurTimerFire(tm) => ~externalLookupDropdownOpen'[fn]
          /\ \A i \in DOMAIN externalLookupOptionsMap[fn] :
                LET option == externalLookupOptionsMap[fn][i]
                IN (PendingBlurTimers(fn) # {}
                    /\ handleExternalLookupSelect(fn, option)) =>
                       /\ recordData'[fn] = Str(option.value)
                       /\ externalLookupDisplayMap'[fn] =
                             (IF option.label = <<>> THEN option.value ELSE option.label)]_vars

\* inside the grace window: the field was blurred, its dropdown is still open
\* and its options can still be selected
C23_Witness ==
    /\ modalState = "open"
    /\ FN_OwnerId \in LookupFieldNames
    /\ PendingBlurTimers(FN_OwnerId) # {}
    /\ externalLookupDropdownOpen[FN_OwnerId]
    /\ externalLookupOptionsMap[FN_OwnerId] # <<>>

(***************************************************************************)
(* Claims on the lookup target and the format checks                       *)
(***************************************************************************)
\* the part of a field name (surrounding blanks ignored) after its last '.'
PartAfterLastDot(name) ==
    LET dots == {i \in DOMAIN name : name[i] = "."}
        start == IF dots = {} THEN 1
                 ELSE (CHOOSE i \in dots : \A k \in dots : k <= i) + 1
    IN trim(SubSeq(name, start, Len(name)))
EndsWithId(part) ==
    /\ Len(part) > 2
    /\ toLowerChar(part[Len(part) - 1]) = "i" /\ toLowerChar(part[Len(part)]) = "d"
ConfiguredTarget(def) ==
    IF isNullish(def.lookupObjectApiName) THEN <<>>
    ELSE trim(String(def.lookupObjectApiName))
ClaimedTarget(def) ==
    LET part == PartAfterLastDot(trim(def.fieldName))
        stem == SubSeq(part, 1, Len(part) - 2)
    IN IF ConfiguredTarget(def) # <<>> THEN ConfiguredTarget(def)
       ELSE IF EndsWithId(part)
            THEN IF toLowerCase(stem) = <<"o","w","n","e","r">>
                 THEN <<"U","s","e","r">> ELSE stem
            ELSE <<>>

\* C24: getLookupObjectForField returns the configured lookup target,
\* trimmed, when it is non-blank; otherwise, for the part of the field name
\* after the last '.', 'User' when it is 'owner' + 'id' in any case, the part
\* without its trailing 'id' when it is longer than 2 characters and ends with
\* 'id' in any case, and '' in every other case; 'OwnerId' gives 'User',
\* 'Account.ParentId' gives 'Parent', 'Name' gives ''.
C24_LookupTargetResolution ==
    ltApplied =>
        /\ ltOut = ClaimedTarget(ltDef)
        /\ (isFalsy(ltDef.lookupObjectApiName)
            /\ ltDef.fieldName = <<"O","w","n","e","r","I","d">>)
              => ltOut = <<"U","s","e","r">>
        /\ (isFalsy(ltDef.lookupObjectApiName)
            /\ ltDef.fieldName = <<"A","c","c","o","u","n","t",".","P","a","r","e","n","t","I","d">>)
              => ltOut = <<"P","a","r","e","n","t">>
        /\ (isFalsy(ltDef.lookupObjectApiName) /\ ltDef.fieldName = <<"N","a","m","e">>)
              => ltOut = <<>>

\* the target of a.b.OWNERid without a configured target was derived
C24_Witness ==
    /\ ltApplied
    /\ isNullish(ltDef.lookupObjectApiName)
    /\ ltDef.fieldName = <<"a",".","b",".","O","W","N","E","R","i","d">>
    /\ ltOut = <<"U","s","e","r">>

\* null, undefined, '' or only blanks
BlankValue(v) == isNullish(v) \/ trim(v.s) = <<>>
DigitCount(str) == Cardinality({i \in DOMAIN str : IsDigit(str[i])})
\* local@domain.tld: one '@' after a non-empty local part, then a non-empty
\* domain, a '.', and a last label of at least 2 letters
HasEmailForm(str) ==
    LET ats == {i \in DOMAIN str : str[i] = "@"}
        dots == {i \in DOMAIN str : str[i] = "."}
    IN /\ Cardinality(ats) = 1
       /\ LET at == CHOOSE i \in ats : TRUE
              domainDots == {i \in dots : i > at}
          IN /\ at > 1
             /\ \A k \in 1..(at - 1) : EmailLocalChar(str[k])
             /\ domainDots # {}
             /\ LET last == CHOOSE i \in domainDots : \A k \in domainDots : k <= i
                IN /\ last > at + 1
                   /\ \A k \in (at + 1)..(last - 1) : EmailDomainChar(str[k])
                   /\ Len(str) - last >= 2
                   /\ \A k \in (last + 1)..Len(str) : IsLetter(str[k])

\* C25: isValidPhone and isValidEmail are true for a null, empty or blank
\* value; otherwise isValidPhone is true exactly when the value has at least
\* 10 digits, and isValidEmail exactly when the trimmed value has the form
\* local@domain.tld with a last label of at least 2 letters; 'a@b.co' and
\* '415-555-0100' pass, 'not-an-email' and '12345' fail.
C25_FormatChecks ==
    fvApplied =>
        /\ fvPhone = (BlankValue(fvIn) \/ DigitCount(fvIn.s) >= 10)
        /\ fvEmail = (BlankValue(fvIn) \/ HasEmailForm(trim(fvIn.s)))
        /\ fvIn = Str(S_mail) => fvEmail
        /\ fvIn = Str(<<"n","o","t","-","a","n","-","e","m","a","i","l">>)
              => (~fvEmail /\ ~fvPhone)
        /\ fvIn = Str(<<"4","1","5","-","5","5","5","-","0","1","0","0">>) => fvPhone
        /\ fvIn = Str(<<"1","2","3","4","5">>) => ~fvPhone

\* the checks were applied to a value that passes one and fails the other
C25_Witness ==
    /\ fvApplied
    /\ ~BlankValue(fvIn)
    /\ fvPhone /\ ~fvEmail
    /\ DigitCount(fvIn.s) = 10

(***************************************************************************)
(* Claims on the descriptors built from the configuration                  *)
(***************************************************************************)
\* the configured order of a field name
OrderOf(fieldName) ==
    (CHOOSE e \in ConfigEntries : e.fieldName = fieldName).order
\* descriptor a may stand before descriptor b: order ascending, then fieldName
InConfiguredOrder(a, b) ==
    \/ OrderOf(a.fieldName) < OrderOf(b.fieldName)
    \/ /\ OrderOf(a.fieldName) = OrderOf(b.fieldName)
       /\ ~stringLess(b.fieldName, a.fieldName)
DescriptorsOrdered(descriptors) ==
    \A i, j \in DOMAIN descriptors :
        (i < j /\ descriptors[i].fieldName # <<>> /\ descriptors[j].fieldName # <<>>)
            => InConfiguredOrder(descriptors[i], descriptors[j])

\* C26: whatever the order in which the configuration entries are supplied,
\* the table columns and the form fields built from them are ordered by order
\* ascending and then by fieldName, and building them again from the same
\* input gives the same output.
C26_DescriptorsSortedByOrder ==
    [][/\ DescriptorsOrdered(cfgColumns') /\ DescriptorsOrdered(cfgFields')
       /\ cfgBuilds >= 1 => UNCHANGED <<cfgColumns, cfgFields>>]_vars

(***************************************************************************)
(* Claims on the sessions the viewer opens                                 *)
(***************************************************************************)
\* C27: in every session the viewer opens, edit mode goes with an initial
\* snapshot that is non-empty and holds the Id, create mode goes with an
\* empty initial snapshot, and the answer of getRecordForEdit is opened as an
\* edit session.
C27_ModeMatchesSnapshot ==
    [][/\ (modalState' = "open" /\ isEditMode')
             => /\ initialRecordValues' # EmptyObj
                /\ ~isFalsy(initialRecordValues'[FN_Id])
       /\ (modalState' = "open" /\ ~isEditMode') => initialRecordValues' = EmptyObj
       /\ (\E call \in fetchesInFlight : \E resp \in OpenEditResponses :
               EditFetchResolve(call, resp)) => isEditMode']_vars

(***************************************************************************)
(* Claims on overlapping loads of the viewer                               *)
(***************************************************************************)
\* a getRecords call issued after this one has already been answered
AnsweredLater(call) ==
    \E n \in (call.id + 1)..loadsIssued : PendingLoad(n) \notin loadsInFlight

\* C28: the answer to a getRecords call that arrives after the answer to a
\* call issued later leaves the displayed rows and columns as they are, so
\* that once every call is answered the view is the answer to the call
\* issued last.
C28_LateLoadAnswerDiscarded ==
    [][\A call \in loadsInFlight :
          (loadsInFlight' = loadsInFlight \ {call} /\ AnsweredLater(call))
              => UNCHANGED <<tableData, tableColumns>>]_vars

(***************************************************************************)
(* Claims on a lookup field after a selection or a clear                   *)
(***************************************************************************)
\* C29: a selection and a clear leave the field with an empty search term
\* and no options, and a keystroke sets a non-empty search term; so while
\* the search term of a field stays empty, through timer fires and query
\* answers, its option list stays empty.
C29_OptionsStayEmptyAfterSelectOrClear ==
    [][\A fn \in LookupFieldNames :
          (/\ modalState = "open"
           /\ externalLookupSearchTerm[fn] = <<>>
           /\ externalLookupSearchTerm'[fn] = <<>>
           /\ externalLookupOptionsMap[fn] = <<>>)
              => externalLookupOptionsMap'[fn] = <<>>]_vars

(***************************************************************************)
(* Claims on the initial snapshot                                          *)
(***************************************************************************)
\* C30: the initial snapshot is the record the session was opened with, and
\* no step of an open session (field change, lookup keystroke, selection,
\* clear, timer fire, query answer, submit, save answer or rejection)
\* changes it.
C30_SnapshotNeverMoves ==
    [][/\ modalState' = "open" => initialRecordValues' = record'
       /\ modalState = "open" => initialRecordValues' = initialRecordValues]_vars

\* an edit session after a changed field, a submit that the server refused
\* and a further change: the snapshot is still the opened record
C30_Witness ==
    /\ modalState = "open" /\ isEditMode /\ touched
    /\ saveCallsIssued >= 1 /\ saveCalls = {}
    /\ errorMessage = Error("Remote error")
    /\ recordData # record
    /\ initialRecordValues = record

(***************************************************************************)
(* Claims on the viewer's loading flag                                     *)
(***************************************************************************)
\* C31: isLoading is true whenever a getRecords or a deleteRecord call is in
\* flight; the answer to one call does not set it to false while another
\* call is still outstanding.
C31_LoadingWhileCallsInFlight ==
    (loadsInFlight # {} \/ deletesInFlight # {}) => isLoading

====
